---- MODULE Spec2Model ----
(***************************************************************************)
(* RSC1 toolchain: the sasm two-pass assembler (src/sasm) and the virtual  *)
(* machine driven by svirt (src/rscvm/src/lib.rs, src/svirt/src/main.rs).  *)
(***************************************************************************)
EXTENDS Integers, Sequences, FiniteSets, TLC

VARIABLES
    build,      \* "debug" (overflow checks on) or "release" (wrapping)
    exec,       \* Executable { bytes, address }
    phase,      \* position of the assembler process
    ncalls,     \* number of Executable operations called directly
    last,       \* the last Executable operation called directly, with its argument
    opts,       \* the command line: [trampoline, entry]
    job,        \* Job { entry, trampoline, address }
    src,        \* the source lines tokenize() has consumed
    tokens,     \* Vec<Token>
    labels,     \* the HashMap built by collect_labels
    ti,         \* gen_executable: index of the next token
    trace1,     \* per source line: the job address before and after it
    trace2,     \* per consumed token: the Executable cursor before it, the words pushed
    config,     \* VirtualMachine.config
    firmware,   \* VirtualMachine.firmware.data
    mem,        \* VirtualMachine.mem.data
    regs,       \* VirtualMachine.regs
    should_run, \* the AtomicBool shared with the ctrlc handler
    vloc,       \* position of the main thread of svirt
    delta,      \* run(): the accumulated nanoseconds
    vghost      \* what run() has done so far and the last step() it made

asmVars == <<opts, job, src, tokens, labels, ti, trace1, trace2>>

vmVars == <<config, firmware, mem, regs, should_run, vloc, delta, vghost>>

vars == <<build, exec, phase, ncalls, last, opts, job, src, tokens, labels, ti, trace1, trace2,
          config, firmware, mem, regs, should_run, vloc, delta, vghost>>

(***************************************************************************)
(* Bounds of the model.                                                    *)
(***************************************************************************)
MaxCalls == 3

MaxLines == 3

MaxDelta == 3

(***************************************************************************)
(* Machine integers.                                                       *)
(***************************************************************************)
U16 == 2^16

U8 == 2^8

RECURSIVE BitAnd(_, _)
BitAnd(a, b) ==
    IF a = 0 \/ b = 0 THEN 0
    ELSE (a % 2) * (b % 2) + 2 * BitAnd(a \div 2, b \div 2)

RECURSIVE BitOr(_, _)
BitOr(a, b) ==
    IF a = 0 THEN b
    ELSE IF b = 0 THEN a
    ELSE (IF a % 2 = 1 \/ b % 2 = 1 THEN 1 ELSE 0) + 2 * BitOr(a \div 2, b \div 2)

RECURSIVE BitXor(_, _)
BitXor(a, b) ==
    IF a = 0 THEN b
    ELSE IF b = 0 THEN a
    ELSE ((a + b) % 2) + 2 * BitXor(a \div 2, b \div 2)

RECURSIVE Pow2(_)
Pow2(n) == IF n = 0 THEN 1 ELSE 2 * Pow2(n - 1)

\* x << n on a u16 (n < 16): the bits shifted out are dropped.
Shl16(x, n) == (x * Pow2(n)) % U16

Shr16(x, n) == x \div Pow2(n)

(***************************************************************************)
(* Executable (src/sasm/src/lib.rs).  bytes is the Vec<u8>; Rust index i   *)
(* is bytes[i + 1] here.                                                   *)
(***************************************************************************)
ExecutableNew == [bytes |-> <<>>, address |-> 0]

Zeros(n) == [i \in 1..n |-> 0]

\* Vec::remove(at) followed by Vec::insert(at, b), at a 0-based index.
RemoveInsert(bytes, at, b) == [bytes EXCEPT ![at + 1] = b]

\* The body of push_byte up to, not including, `self.address += 1`.
PushByteStore(e, b) ==
    LET len0 == Len(e.bytes) % U16
        padded == IF e.address > len0
                    THEN e.bytes \o Zeros(e.address - len0)
                    ELSE e.bytes
        current_address == IF e.address > len0 THEN e.address ELSE len0
    IN  IF e.address = current_address
          THEN [e EXCEPT !.bytes = Append(padded, b)]
          ELSE [e EXCEPT !.bytes = RemoveInsert(padded, e.address, b)]

\* `self.address += 1` overflows the u16.
PushByteOverflows(e) == e.address + 1 >= U16

\* push_byte where the increment does not abort (it wraps in a release build).
PushByte(e, b) ==
    LET s == PushByteStore(e, b)
    IN  [s EXCEPT !.address = (e.address + 1) % U16]

\* push_short: low byte, then high byte.
PushShortLo(s) == BitAnd(s, 255)

PushShortHi(s) == Shr16(BitAnd(s, 65280), 8)

\* push_short(s): [exec, panic].  In a debug build `self.address += 1` aborts
\* the process when it overflows; the byte has been stored by then.
PushShort(e, s, bld) ==
    LET e1 == PushByte(e, PushShortLo(s))
    IN  IF bld = "debug" /\ PushByteOverflows(e)
          THEN [exec |-> PushByteStore(e, PushShortLo(s)), panic |-> TRUE]
          ELSE IF bld = "debug" /\ PushByteOverflows(e1)
                 THEN [exec |-> PushByteStore(e1, PushShortHi(s)), panic |-> TRUE]
                 ELSE [exec |-> PushByte(e1, PushShortHi(s)), panic |-> FALSE]

\* A run of push_short calls, stopping at the first abort.
RECURSIVE PushShorts(_, _, _)
PushShorts(e, ws, bld) ==
    IF ws = <<>> THEN [exec |-> e, panic |-> FALSE]
    ELSE LET r == PushShort(e, Head(ws), bld)
         IN  IF r.panic THEN r ELSE PushShorts(r.exec, Tail(ws), bld)

SetAddress(e, a) == [e EXCEPT !.address = a]

Size(e) == Len(e.bytes)

(***************************************************************************)
(* Text.  A string is a sequence of one-character strings.                 *)
(***************************************************************************)
Lower == <<"a","b","c","d","e","f","g","h","i","j","k","l","m",
           "n","o","p","q","r","s","t","u","v","w","x","y","z">>

Upper == <<"A","B","C","D","E","F","G","H","I","J","K","L","M",
           "N","O","P","Q","R","S","T","U","V","W","X","Y","Z">>

Digits == <<"0","1","2","3","4","5","6","7","8","9">>

IndexIn(seq, c) == IF \E i \in 1..Len(seq) : seq[i] = c
                     THEN CHOOSE i \in 1..Len(seq) : seq[i] = c
                     ELSE 0

\* The ASCII code of a character (label.as_bytes()).
Ord(c) ==
    IF IndexIn(Lower, c) > 0 THEN 96 + IndexIn(Lower, c)
    ELSE IF IndexIn(Upper, c) > 0 THEN 64 + IndexIn(Upper, c)
    ELSE IF IndexIn(Digits, c) > 0 THEN 47 + IndexIn(Digits, c)
    ELSE IF c = "_" THEN 95
    ELSE IF c = "+" THEN 43
    ELSE 63

\* char::to_digit(radix): the digit's value, or -1.
ToDigit(c, radix) ==
    LET v == IF IndexIn(Digits, c) > 0 THEN IndexIn(Digits, c) - 1
             ELSE IF IndexIn(Lower, c) > 0 THEN 9 + IndexIn(Lower, c)
             ELSE IF IndexIn(Upper, c) > 0 THEN 9 + IndexIn(Upper, c)
             ELSE -1
    IN  IF v >= 0 /\ v < radix THEN v ELSE -1

Fail == 0 - 1

RECURSIVE FromDigits(_, _, _, _)
FromDigits(s, radix, max, acc) ==
    IF s = <<>> THEN acc
    ELSE LET d == ToDigit(Head(s), radix)
         IN  IF d < 0 \/ acc * radix + d > max THEN Fail
             ELSE FromDigits(Tail(s), radix, max, acc * radix + d)

\* <unsigned>::from_str_radix(s, radix) with the type's maximum `max`:
\* an optional leading "+", then at least one digit; Fail for Err.
FromStrRadix(s, radix, max) ==
    LET body == IF s # <<>> /\ Head(s) = "+" THEN Tail(s) ELSE s
    IN  IF body = <<>> THEN Fail ELSE FromDigits(body, radix, max, 0)

\* str::parse::<u16>() and str::parse::<u8>().
ParseU16(s) == FromStrRadix(s, 10, U16 - 1)

ParseU8(s) == FromStrRadix(s, 10, U8 - 1)

\* parse_int_from_string: the value, or Fail where the code calls critical!.
parse_int_from_string(s, max) == FromStrRadix(s, 10, max)

RECURSIVE TrimStart0x(_)
TrimStart0x(s) ==
    IF Len(s) >= 2 /\ s[1] = "0" /\ s[2] = "x"
      THEN TrimStart0x(SubSeq(s, 3, Len(s)))
      ELSE s

\* RegisterId.
R7 == 7

SP == 8

C0 == 9

C1 == 10

\* reg_name_to_num: the register number, or Fail where the code calls critical!.
reg_name_to_num(name) ==
    IF name = <<"s", "p">> THEN SP
    ELSE IF Len(name) < 2 THEN Fail
    ELSE LET num == parse_int_from_string(<<name[2]>>, U16 - 1)
         IN  IF num = Fail THEN Fail
             ELSE IF name[1] = "r" THEN num
             ELSE IF name[1] = "c" THEN num + C0
             ELSE Fail

(***************************************************************************)
(* 64-bit values are kept as their eight bytes, least significant first.   *)
(***************************************************************************)
Zero64 == [i \in 1..8 |-> 0]

U64(v) == [i \in 1..8 |-> IF i = 1 THEN v % 256
                          ELSE IF i = 2 THEN (v \div 256) % 256
                          ELSE IF i = 3 THEN (v \div 65536) % 256
                          ELSE 0]

\* `k as u8` written for `k as u16`.
AsU16Slip(k) == k[1]

\* `k as u16`
AsU16(k) == k[1] + 256 * k[2]

Xor64(p, q) == [i \in 1..8 |-> BitXor(p[i], q[i])]

\* LabelGroup that pads the last group with blanks.
LabelGroupSlip(label, j) ==
    [i \in 1..8 |-> IF j + i <= Len(label) THEN Ord(label[j + i]) ELSE 32]

\* The `mask` of one step of calculate_label_id: bytes j..j+7, zero padded.
LabelGroup(label, j) ==
    [i \in 1..8 |-> IF j + i <= Len(label) THEN Ord(label[j + i]) ELSE 0]

RECURSIVE LabelFold(_, _, _)
LabelFold(label, j, hash) ==
    IF j >= Len(label) THEN hash
    ELSE LabelFold(label, j + 8, Xor64(hash, LabelGroup(label, j)))

calculate_label_id(label) == LabelFold(label, 0, Zero64)

(***************************************************************************)
(* Tokens (enum Token) and pass 1 (Job::tokenize, src/sasm/src/lib.rs).    *)
(* A token is [op, x, y, z, k, l]: op the variant, x, y, z its 16/8-bit    *)
(* fields in order, k its u64 field, l its bool field.                     *)
(* A source line is [kind, head, text, args]: kind is the branch gen_token *)
(* takes, head the directive (without its dot) or the mnemonic, text the   *)
(* label without its colon, args the comma-separated arguments with the    *)
(* blanks removed.                                                         *)
(***************************************************************************)
Tok(op, x, y, z, k, l) == [op |-> op, x |-> x, y |-> y, z |-> z, k |-> k, l |-> l]

TRAMPOLINE_SIZE == 4 * 2

JobNew == [entry |-> <<"_", "s", "t", "a", "r", "t">>,
           trampoline |-> FALSE, address |-> 0]

\* Job::trampoline()
JobTrampoline(j) ==
    [j EXCEPT !.address = j.address + TRAMPOLINE_SIZE, !.trampoline = TRUE]

\* The outcome of generating one token: fatal (critical! was called), or the
\* token with the job's new address and trampoline flag.
Fatal == [fatal |-> TRUE, address |-> 0, trampoline |-> FALSE,
          tok |-> Tok("fatal", 0, 0, 0, Zero64, FALSE)]

Gen(j, adv, tok) ==
    [fatal |-> FALSE, address |-> j.address + adv, trampoline |-> j.trampoline,
     tok |-> tok]

RR == {"and", "add", "sub", "ldb", "ldw", "mov", "stb", "stw", "jnz"}

R1 == {"not", "inc", "dec", "jmp"}

RI == {"ldi", "shr", "shl"}

I1 == {"test", "setf", "clrf"}

\* assert_args_len_eq of gen_instruction_token: TRUE when it does not abort.
InsArgsOk(args, len) ==
    /\ ~ (\/ len = 0 /\ (Len(args) > 1 \/ args[1] # <<>>)
          \/ len > 0 /\ Len(args) > len)
    /\ ~ (Len(args) < len)

\* assert_args_len_eq of gen_pseudo_instruction_token and gen_directive_token.
ArgsOk(args, len) == ~ (Len(args) > len) /\ ~ (Len(args) < len)

\* PseudoAdvance with the expansion of `call` counted one word short.
PseudoAdvanceSlip(head) ==
    CASE head \in {"push", "pop", "ldl"} -> 2 * 3 - 2
      [] head = "call" -> 2 * 16 - 2
      [] head = "callf" -> 2 * 7 - 2
      [] head = "ret" -> 2 * 4 - 2

\* What each arm of gen_pseudo_instruction_token adds to self.address.
PseudoAdvance(head) ==
    CASE head \in {"push", "pop", "ldl"} -> 2 * 3 - 2
      [] head = "call" -> 2 * 17 - 2
      [] head = "callf" -> 2 * 7 - 2
      [] head = "ret" -> 2 * 4 - 2

\* gen_pseudo_instruction_token; the job has already advanced by 2.
gen_pseudo_instruction_token(j, head, args) ==
    LET reg(i) == reg_name_to_num(args[i])
        adv == PseudoAdvance(head)
    IN  IF head \in {"push", "pop"} THEN
          IF ~ ArgsOk(args, 1) \/ reg(1) = Fail THEN Fatal
          ELSE Gen(j, adv, Tok(head, reg(1), 0, 0, Zero64, FALSE))
        ELSE IF head = "ldl" THEN
          IF ~ ArgsOk(args, 2) THEN Fatal
          ELSE LET trimmed == TrimStart0x(args[2])
                   value == IF ParseU16(args[1]) # Fail THEN U64(ParseU16(args[1]))
                            ELSE IF FromStrRadix(trimmed, 16, U16 - 1) # Fail
                                   THEN U64(FromStrRadix(trimmed, 16, U16 - 1))
                                   ELSE calculate_label_id(trimmed)
               IN  IF reg(1) = Fail THEN Fatal
                   ELSE Gen(j, adv, Tok("ldl", reg(1), 0, 0, value, FALSE))
        ELSE IF head = "call" THEN
          IF ~ ArgsOk(args, 1) \/ reg(1) = Fail THEN Fatal
          ELSE Gen(j, adv,
                   Tok("call", reg(1), (j.address + adv) % U16, 0, Zero64, FALSE))
        ELSE IF head = "callf" THEN
          IF ~ ArgsOk(args, 2) \/ reg(1) = Fail \/ reg(2) = Fail THEN Fatal
          ELSE Gen(j, adv,
                   Tok("callf", reg(1), reg(2), (j.address + adv) % U16,
                       Zero64, FALSE))
        ELSE IF head = "ret" THEN
          IF ~ ArgsOk(args, 1) \/ reg(1) = Fail THEN Fatal
          ELSE Gen(j, adv, Tok("ret", reg(1), 0, 0, Zero64, FALSE))
        ELSE Fatal

\* gen_instruction_token
gen_instruction_token(j, head, args) ==
    LET reg(i) == reg_name_to_num(args[i])
        imm(i) == parse_int_from_string(args[i], U8 - 1)
        j2 == [j EXCEPT !.address = j.address + 2]
    IN  IF head = "nop" THEN
          IF ~ InsArgsOk(args, 0) THEN Fatal
          ELSE Gen(j2, 0, Tok("nop", 0, 0, 0, Zero64, FALSE))
        ELSE IF head \in RR THEN
          IF ~ InsArgsOk(args, 2) \/ reg(1) = Fail \/ reg(2) = Fail THEN Fatal
          ELSE Gen(j2, 0, Tok(head, reg(1), reg(2), 0, Zero64, FALSE))
        ELSE IF head \in R1 THEN
          IF ~ InsArgsOk(args, 1) \/ reg(1) = Fail THEN Fatal
          ELSE Gen(j2, 0, Tok(head, reg(1), 0, 0, Zero64, FALSE))
        ELSE IF head \in RI THEN
          IF ~ InsArgsOk(args, 2) \/ reg(1) = Fail \/ imm(2) = Fail THEN Fatal
          ELSE Gen(j2, 0, Tok(head, reg(1), imm(2), 0, Zero64, FALSE))
        ELSE IF head \in I1 THEN
          IF ~ InsArgsOk(args, 1) \/ imm(1) = Fail THEN Fatal
          ELSE Gen(j2, 0, Tok(head, imm(1), 0, 0, Zero64, FALSE))
        ELSE gen_pseudo_instruction_token(j2, head, args)

\* gen_directive_token; head is the directive without its dot.
gen_directive_token(j, head, args) ==
    IF head = "short" THEN
      IF ~ ArgsOk(args, 1) THEN Fatal
      ELSE LET trimmed == TrimStart0x(args[1])
           IN  IF ParseU16(trimmed) # Fail
                 THEN Gen(j, 2, Tok("short", 0, 0, 0, U64(ParseU16(trimmed)), FALSE))
               ELSE IF FromStrRadix(trimmed, 16, U16 - 1) # Fail
                 THEN Gen(j, 2, Tok("short", 0, 0, 0,
                                    U64(FromStrRadix(trimmed, 16, U16 - 1)), FALSE))
               ELSE Gen(j, 2, Tok("short", 0, 0, 0, calculate_label_id(trimmed), TRUE))
    ELSE IF head = "addr" THEN
      IF ~ ArgsOk(args, 1) THEN Fatal
      ELSE LET address ==
                 IF ParseU16(args[1]) # Fail THEN ParseU16(args[1])
                 ELSE FromStrRadix(TrimStart0x(args[1]), 16, U16 - 1)
           IN  IF address = Fail \/ address % 2 # 0 \/ address > U16 - 1 THEN Fatal
               ELSE [fatal |-> FALSE, address |-> address,
                     trampoline |-> j.trampoline,
                     tok |-> Tok("addr", address, 0, 0, Zero64, FALSE)]
    ELSE Fatal

\* gen_label_token whose rewind leaves the trampoline flag set.
gen_label_tokenSlip(j, label) ==
    LET rewind == j.trampoline /\ j.entry = label /\ j.address = TRAMPOLINE_SIZE
        address == IF rewind THEN j.address - TRAMPOLINE_SIZE ELSE j.address
    IN  [fatal |-> FALSE, address |-> address,
         trampoline |-> j.trampoline,
         tok |-> Tok("label", address % U16, 0, 0, calculate_label_id(label), FALSE)]

\* gen_label_token; label is the line without its colon.
gen_label_token(j, label) ==
    LET rewind == j.trampoline /\ j.entry = label /\ j.address = TRAMPOLINE_SIZE
        address == IF rewind THEN j.address - TRAMPOLINE_SIZE ELSE j.address
    IN  [fatal |-> FALSE, address |-> address,
         trampoline |-> IF rewind THEN FALSE ELSE j.trampoline,
         tok |-> Tok("label", address % U16, 0, 0, calculate_label_id(label), FALSE)]

gen_token(j, line) ==
    IF line.kind = "directive" THEN gen_directive_token(j, line.head, line.args)
    ELSE IF line.kind = "label" THEN gen_label_token(j, line.text)
    ELSE gen_instruction_token(j, line.head, line.args)

\* The two tokens tokenize() inserts in front when job.trampoline is still set.
TrampolineTokens(j) ==
    IF j.trampoline
      THEN << Tok("ldl", 0, 0, 0, calculate_label_id(j.entry), FALSE),
              Tok("jmp", 0, 0, 0, Zero64, FALSE) >>
      ELSE <<>>

(***************************************************************************)
(* Pass 2 (collect_labels, gen_executable, src/sasm/src/main.rs).          *)
(***************************************************************************)
NoLabels == [k \in {} |-> 0]

\* CollectFrom without the contains_key test: a later label replaces an
\* earlier one.
RECURSIVE CollectFromSlip(_, _, _)
CollectFromSlip(toks, i, lab) ==
    IF i > Len(toks) THEN [fatal |-> FALSE, labels |-> lab]
    ELSE IF toks[i].op # "label" THEN CollectFromSlip(toks, i + 1, lab)
    ELSE CollectFromSlip(toks, i + 1,
             [k \in DOMAIN lab \cup {toks[i].k} |->
                 IF k = toks[i].k THEN toks[i].x ELSE lab[k]])

\* collect_labels: [fatal, labels]; fatal on a duplicate id.
RECURSIVE CollectFrom(_, _, _)
CollectFrom(toks, i, lab) ==
    IF i > Len(toks) THEN [fatal |-> FALSE, labels |-> lab]
    ELSE IF toks[i].op # "label" THEN CollectFrom(toks, i + 1, lab)
    ELSE IF toks[i].k \in DOMAIN lab THEN [fatal |-> TRUE, labels |-> lab]
    ELSE CollectFrom(toks, i + 1,
             [k \in DOMAIN lab \cup {toks[i].k} |->
                 IF k = toks[i].k THEN toks[i].x ELSE lab[k]])

collect_labels(toks) == CollectFrom(toks, 1, NoLabels)

check_register_range(reg, ceil) == reg <= ceil

\* Or3 that drops its last operand.
Or3Slip(a, b, c) == BitOr(a, b)

Or3(a, b, c) == BitOr(BitOr(a, b), c)

\* LdlWords with the two halves of a exchanged.
LdlWordsSlip(x, a) ==
    << Or3(16384, Shl16(x, 8), BitAnd(a, 255)),
       BitOr(28801, Shl16(x, 8)),
       Or3(16384, Shl16(x, 8), Shr16(BitAnd(a, 65280), 8)) >>

\* The words of `ldl x, a` as written three times in gen_executable.
LdlWords(x, a) ==
    << Or3(16384, Shl16(x, 8), Shr16(BitAnd(a, 65280), 8)),
       BitOr(28801, Shl16(x, 8)),
       Or3(16384, Shl16(x, 8), BitAnd(a, 255)) >>

NoWords == [fatal |-> TRUE, words |-> <<>>]

Words(ws) == [fatal |-> FALSE, words |-> ws]

\* Ceilings checked by check_x / check_y for the two-register natives.
CeilX(op) == IF op = "mov" THEN C1
             ELSE IF op = "jnz" THEN SP
             ELSE R7

\* CeilY with the tested register of jnz allowed up to SP.
CeilYSlip(op) == IF op = "mov" THEN C1
                 ELSE IF op \in {"ldb", "ldw", "stb", "stw", "jnz"} THEN SP
                 ELSE R7

CeilY(op) == IF op = "mov" THEN C1
             ELSE IF op \in {"ldb", "ldw", "stb", "stw"} THEN SP
             ELSE R7

\* Base with the constant of `add` pasted into the arm of `sub`.
BaseSlip(op) ==
    CASE op = "nop" -> 0
      [] op = "and" -> 4096    [] op = "not" -> 4097
      [] op = "add" -> 8192    [] op = "sub" -> 8192
      [] op = "inc" -> 8194    [] op = "dec" -> 8195
      [] op = "ldb" -> 12288   [] op = "ldw" -> 12289
      [] op = "mov" -> 12290   [] op = "ldi" -> 16384
      [] op = "stb" -> 20480   [] op = "stw" -> 20481
      [] op = "jmp" -> 24576   [] op = "jnz" -> 24577
      [] op = "shr" -> 28672   [] op = "shl" -> 28673
      [] op = "test" -> 32768  [] op = "setf" -> 32769
      [] op = "clrf" -> 32770

\* The constant or-ed into the word of each native instruction.
Base(op) ==
    CASE op = "nop" -> 0
      [] op = "and" -> 4096    [] op = "not" -> 4097
      [] op = "add" -> 8192    [] op = "sub" -> 8193
      [] op = "inc" -> 8194    [] op = "dec" -> 8195
      [] op = "ldb" -> 12288   [] op = "ldw" -> 12289
      [] op = "mov" -> 12290   [] op = "ldi" -> 16384
      [] op = "stb" -> 20480   [] op = "stw" -> 20481
      [] op = "jmp" -> 24576   [] op = "jnz" -> 24577
      [] op = "shr" -> 28672   [] op = "shl" -> 28673
      [] op = "test" -> 32768  [] op = "setf" -> 32769
      [] op = "clrf" -> 32770

\* One arm of the match in gen_executable: the words pushed for a token, or
\* fatal.  "addr" and "label" push nothing.
TokenWords(t, lab) ==
    LET x == t.x
        y == t.y
    IN
    IF t.op = "short" THEN
      IF t.l THEN (IF t.k \in DOMAIN lab THEN Words(<<lab[t.k]>>) ELSE NoWords)
      ELSE Words(<<AsU16(t.k)>>)
    ELSE IF t.op \in {"addr", "label"} THEN Words(<<>>)
    ELSE IF t.op = "nop" THEN Words(<<0>>)
    ELSE IF t.op \in {"and", "add", "sub", "ldb", "ldw", "mov", "jnz"} THEN
      IF ~ check_register_range(x, CeilX(t.op)) \/ ~ check_register_range(y, CeilY(t.op))
        THEN NoWords
        ELSE Words(<<Or3(Base(t.op), Shl16(x, 8), Shl16(y, 4))>>)
    ELSE IF t.op \in {"stb", "stw"} THEN
      \* Token::STB(y, x): the first field is the address register.
      IF ~ check_register_range(x, SP) \/ ~ check_register_range(y, R7)
        THEN NoWords
        ELSE Words(<<Or3(Base(t.op), Shl16(x, 8), Shl16(y, 4))>>)
    ELSE IF t.op \in {"not", "inc", "dec", "jmp"} THEN
      IF ~ check_register_range(x, IF t.op = "not" THEN R7 ELSE SP) THEN NoWords
      ELSE Words(<<BitOr(Base(t.op), Shl16(x, 8))>>)
    ELSE IF t.op = "ldi" THEN
      IF ~ check_register_range(x, R7) THEN NoWords
      ELSE Words(<<Or3(16384, Shl16(x, 8), y)>>)
    ELSE IF t.op \in {"shr", "shl"} THEN
      IF ~ check_register_range(x, R7) THEN NoWords
      ELSE Words(<<Or3(Base(t.op), Shl16(x, 8), Shl16(BitAnd(y, 15), 4))>>)
    ELSE IF t.op \in {"test", "setf", "clrf"} THEN
      Words(<<BitOr(Base(t.op), Shl16(BitAnd(x, 15), 8))>>)
    ELSE IF t.op = "push" THEN
      IF ~ check_register_range(x, R7) THEN NoWords
      ELSE Words(<<10243, 10243, BitOr(22529, Shl16(x, 4))>>)
    ELSE IF t.op = "pop" THEN
      IF ~ check_register_range(x, R7) THEN NoWords
      ELSE Words(<<BitOr(12417, Shl16(x, 8)), 10242, 10242>>)
    ELSE IF t.op = "ldl" THEN
      Words(LdlWords(x, IF t.k \in DOMAIN lab THEN lab[t.k] ELSE AsU16(t.k)))
    ELSE IF t.op = "call" THEN
      IF ~ check_register_range(x, R7) THEN NoWords
      ELSE Words(<<10243, 10243, 10243, 10243, BitOr(22529, Shl16(x, 4)),
                   10242, 10242>>
                 \o LdlWords(x, y)
                 \o <<BitOr(22529, Shl16(x, 4)), 10243, 10243,
                      BitOr(12417, Shl16(x, 8)), 10242, 10242,
                      BitOr(24576, Shl16(x, 8))>>)
    ELSE IF t.op = "callf" THEN
      IF ~ check_register_range(x, SP) \/ ~ check_register_range(y, R7) \/ x = y
        THEN NoWords
        ELSE Words(LdlWords(y, t.z)
                   \o <<10243, 10243, BitOr(22529, Shl16(y, 4)),
                        BitOr(24576, Shl16(x, 8))>>)
    ELSE IF t.op = "ret" THEN
      IF ~ check_register_range(x, R7) THEN NoWords
      ELSE Words(<<BitOr(12417, Shl16(x, 8)), 10242, 10242,
                   BitOr(24576, Shl16(x, 8))>>)
    ELSE NoWords

(***************************************************************************)
(* The Executable driven directly through its public operations.           *)
(***************************************************************************)
ExecAddrs == {0, 1, 2, 5, 65534, 65535}

ExecShorts == {0, 4660, 65535}

AsmIdle ==
    /\ opts = [trampoline |-> FALSE, entry |-> JobNew.entry]
    /\ job = JobNew
    /\ src = <<>>
    /\ tokens = <<>>
    /\ labels = NoLabels
    /\ ti = 1
    /\ trace1 = <<>>
    /\ trace2 = <<>>

NoOp == [op |-> "new", arg |-> 0, before |-> ExecutableNew]

(***************************************************************************)
(* The virtual machine (src/rscvm/src/lib.rs).  Arrays are sequences: Rust *)
(* index i is element i + 1 here.  u16 arithmetic aborts on overflow in a  *)
(* debug build and wraps in a release build; an index outside an array and *)
(* unwrap() of None abort in both.                                         *)
(***************************************************************************)
DefaultFirmware == <<96, 222, 224, 8, 96, 173, 97, 222, 225, 8, 97, 173, 0, 0>>

MemoryNew(alloc_size) == Zeros(alloc_size)

RegistersNew ==
    [r |-> <<0, 0, 0, 0, 0, 0, 0, 0>>, c |-> <<0, 0>>, sp |-> 0, fg |-> 0, pc |-> 0]

\* Option<&mut u16>: which field of Registers a register number names.
num_to_ptr(num) ==
    IF num = 10 THEN [some |-> TRUE, bank |-> "sp", i |-> 0]
    ELSE IF num \in {8, 9} THEN [some |-> TRUE, bank |-> "c", i |-> num - 8]
    ELSE IF num \in 1..7 THEN [some |-> TRUE, bank |-> "r", i |-> num]
    ELSE [some |-> FALSE, bank |-> "", i |-> 0]

Deref(rg, ptr) ==
    IF ptr.bank = "sp" THEN rg.sp
    ELSE IF ptr.bank = "c" THEN rg.c[ptr.i + 1]
    ELSE rg.r[ptr.i + 1]

Assign(rg, ptr, v) ==
    IF ptr.bank = "sp" THEN [rg EXCEPT !.sp = v]
    ELSE IF ptr.bank = "c" THEN [rg EXCEPT !.c[ptr.i + 1] = v]
    ELSE [rg EXCEPT !.r[ptr.i + 1] = v]

\* a + b and a - b on u16: whether the checked operation aborts, and the
\* wrapped value.
Overflows(a, b, bld) == bld = "debug" /\ a + b >= U16

Underflows(a, b, bld) == bld = "debug" /\ a < b

Wrap(v) == v % U16

\* data[i] aborts when i is not below the length.
InData(data, i) == i < Len(data)

\* The outcome of step(): Ok(s) or Err(exc) with the registers and memory it
\* leaves, or the abort of the host.
StepOk(s, rg, mm) == [kind |-> "ok", exc |-> "", s |-> s, regs |-> rg, mem |-> mm]

StepErr(e, rg, mm) == [kind |-> "err", exc |-> e, s |-> 0, regs |-> rg, mem |-> mm]

StepPanic(rg, mm) == [kind |-> "panic", exc |-> "", s |-> 0, regs |-> rg, mem |-> mm]

\* fetch(): [panic, opcode].
fetch(mm, rg, bld) ==
    IF Underflows(Len(mm), 2, bld) THEN [panic |-> TRUE, opcode |-> 0]
    ELSE IF rg.pc > Wrap(Len(mm) - 2) THEN [panic |-> FALSE, opcode |-> 0]
    ELSE IF ~InData(mm, rg.pc) THEN [panic |-> TRUE, opcode |-> 0]
    ELSE IF Overflows(rg.pc, 1, bld) \/ ~InData(mm, Wrap(rg.pc + 1))
           THEN [panic |-> TRUE, opcode |-> 0]
    ELSE [panic |-> FALSE,
          opcode |-> BitOr(Shl16(mm[rg.pc + 1], 8), mm[Wrap(rg.pc + 1) + 1])]

\* The fields step() takes out of an opcode.
OpClass(opcode) == Shr16(BitAnd(opcode, 61440), 12)

OpX(opcode) == Shr16(BitAnd(opcode, 3840), 8)

OpY(opcode) == Shr16(BitAnd(opcode, 240), 4)

InstructionName(class) ==
    <<"HLT", "CALL", "RET", "JMP", "JNZ", "MOV", "LDI", "LDA",
      "STA", "PUSH", "POP", "AND", "NOT", "SHR", "SHL", "ADD">>[class + 1]

StepCALL(opcode, mm, rg, bld) ==
    IF BitAnd(opcode, 255) # 0 THEN StepErr("SEG", rg, mm)
    ELSE IF OpX(opcode) >= 8 THEN StepErr("IOP", rg, mm)
    ELSE IF rg.sp < 2 THEN StepErr("SEG", rg, mm)
    ELSE IF Overflows(rg.pc, 2, bld) THEN StepPanic(rg, mm)
    ELSE LET tmp == Wrap(rg.pc + 2)
             rg1 == [rg EXCEPT !.pc = tmp]
         IN  IF ~InData(mm, tmp) THEN StepPanic(rg1, mm)
             ELSE IF Overflows(tmp, 1, bld) \/ ~InData(mm, Wrap(tmp + 1))
                    THEN StepPanic(rg1, [mm EXCEPT ![tmp + 1] = tmp \div 256])
             ELSE StepOk(0, rg1, [mm EXCEPT ![tmp + 1] = tmp \div 256,
                                            ![Wrap(tmp + 1) + 1] = tmp % 256])

StepRET(opcode, mm, rg, bld) ==
    IF BitAnd(opcode, 4095) # 0 THEN StepErr("SEG", rg, mm)
    ELSE IF Underflows(Len(mm), 2, bld) THEN StepPanic(rg, mm)
    ELSE IF rg.sp > Wrap(Len(mm) - 2) THEN StepErr("SEG", rg, mm)
    ELSE IF ~InData(mm, rg.sp) THEN StepPanic(rg, mm)
    ELSE IF Overflows(rg.pc, 1, bld) \/ ~InData(mm, Wrap(rg.pc + 1))
           THEN StepPanic(rg, mm)
    ELSE LET pc_hi == Shl16(mm[rg.sp + 1], 8)
             pc_lo == mm[Wrap(rg.pc + 1) + 1]
             rg1 == [rg EXCEPT !.pc = BitOr(pc_hi, pc_lo)]
         IN  IF Overflows(rg.sp, 2, bld) THEN StepPanic(rg1, mm)
             ELSE StepOk(0, [rg1 EXCEPT !.sp = Wrap(rg.sp + 2)], mm)

StepJMP(opcode, mm, rg, bld) ==
    IF BitAnd(opcode, 255) # 0 THEN StepErr("SEG", rg, mm)
    ELSE IF OpX(opcode) >= 8 THEN StepErr("IOP", rg, mm)
    ELSE StepOk(0, [rg EXCEPT !.pc = rg.r[OpX(opcode) + 1]], mm)

StepJNZ(opcode, mm, rg, bld) ==
    IF BitAnd(opcode, 15) # 0 THEN StepErr("SEG", rg, mm)
    ELSE IF OpX(opcode) >= 8 \/ OpY(opcode) >= 8 THEN StepErr("IOP", rg, mm)
    ELSE IF rg.r[OpY(opcode) + 1] # 0
           THEN StepOk(0, [rg EXCEPT !.pc = rg.r[OpX(opcode) + 1]], mm)
    ELSE StepOk(2, rg, mm)

StepMOV(opcode, mm, rg, bld) ==
    IF BitAnd(opcode, 15) # 0 THEN StepErr("SEG", rg, mm)
    ELSE IF OpX(opcode) > 10 \/ OpY(opcode) > 10 THEN StepErr("IOP", rg, mm)
    ELSE IF ~num_to_ptr(OpY(opcode)).some THEN StepPanic(rg, mm)
    ELSE IF ~num_to_ptr(OpX(opcode)).some THEN StepPanic(rg, mm)
    ELSE StepOk(2, Assign(rg, num_to_ptr(OpX(opcode)),
                          Deref(rg, num_to_ptr(OpY(opcode)))), mm)

\* StepLDI that replaces the whole register by the immediate.
StepLDISlip(opcode, mm, rg, bld) ==
    IF OpX(opcode) >= 8 THEN StepErr("IOP", rg, mm)
    ELSE StepOk(2, [rg EXCEPT !.r[OpX(opcode) + 1] = BitAnd(opcode, 255)], mm)

StepLDI(opcode, mm, rg, bld) ==
    IF OpX(opcode) >= 8 THEN StepErr("IOP", rg, mm)
    ELSE StepOk(2, [rg EXCEPT !.r[OpX(opcode) + 1] =
                        BitOr(BitAnd(rg.r[OpX(opcode) + 1], 65280),
                              BitAnd(opcode, 255))], mm)

StepLDA(opcode, mm, rg, bld) ==
    IF OpX(opcode) >= 8 \/ OpY(opcode) >= 8 THEN StepErr("IOP", rg, mm)
    ELSE IF Underflows(Len(mm), 2, bld) THEN StepPanic(rg, mm)
    ELSE LET x == OpX(opcode)
             addr == rg.r[OpY(opcode) + 1]
         IN  IF addr > Wrap(Len(mm) - 2) THEN StepErr("SEG", rg, mm)
             ELSE IF BitAnd(opcode, 15) = 0
                    THEN IF ~InData(mm, addr) THEN StepPanic(rg, mm)
                         ELSE StepOk(2, [rg EXCEPT !.r[x + 1] =
                                  BitOr(Shl16(BitAnd(rg.r[x + 1], 65280), 8),
                                        mm[addr + 1])], mm)
             ELSE IF BitAnd(opcode, 15) = 1
                    THEN IF ~InData(mm, addr) THEN StepPanic(rg, mm)
                         ELSE IF Overflows(addr, 1, bld) \/ ~InData(mm, Wrap(addr + 1))
                                THEN StepPanic(rg, mm)
                         ELSE StepOk(2, [rg EXCEPT !.r[x + 1] =
                                  BitOr(Shl16(mm[addr + 1], 8),
                                        mm[Wrap(addr + 1) + 1])], mm)
             ELSE StepErr("IOP", rg, mm)

StepSTA(opcode, mm, rg, bld) ==
    IF OpX(opcode) >= 8 \/ OpY(opcode) >= 8 THEN StepErr("IOP", rg, mm)
    ELSE IF Underflows(Len(mm), 2, bld) THEN StepPanic(rg, mm)
    ELSE LET v == rg.r[OpY(opcode) + 1]
             addr == rg.r[OpX(opcode) + 1]
         IN  IF addr > Wrap(Len(mm) - 2) THEN StepErr("SEG", rg, mm)
             ELSE IF BitAnd(opcode, 15) = 0
                    THEN IF ~InData(mm, addr) THEN StepPanic(rg, mm)
                         ELSE StepOk(2, rg, [mm EXCEPT ![addr + 1] = v % 256])
             ELSE IF BitAnd(opcode, 15) = 1
                    THEN IF ~InData(mm, addr) THEN StepPanic(rg, mm)
                         ELSE IF Overflows(addr, 1, bld) \/ ~InData(mm, Wrap(addr + 1))
                                THEN StepPanic(rg, [mm EXCEPT ![addr + 1] = v \div 256])
                         ELSE StepOk(2, rg, [mm EXCEPT ![addr + 1] = v \div 256,
                                                       ![Wrap(addr + 1) + 1] = v % 256])
             ELSE StepErr("IOP", rg, mm)

\* `match opcode & 0x00FF` of PUSH and POP: which value is moved, or Err.
StepPUSH(opcode, mm, rg, bld) ==
    IF rg.sp < 2 THEN StepErr("SEG", rg, mm)
    ELSE IF BitAnd(opcode, 255) = 0 /\ OpX(opcode) > 10 THEN StepErr("IOP", rg, mm)
    ELSE IF BitAnd(opcode, 255) = 0 /\ ~num_to_ptr(OpX(opcode)).some
           THEN StepPanic(rg, mm)
    ELSE IF BitAnd(opcode, 255) = 1 /\ BitAnd(opcode, 4080) # 0
           THEN StepErr("IOP", rg, mm)
    ELSE IF BitAnd(opcode, 255) > 1 THEN StepErr("IOP", rg, mm)
    ELSE LET value == IF BitAnd(opcode, 255) = 0
                        THEN Deref(rg, num_to_ptr(OpX(opcode)))
                        ELSE rg.fg
             sp == rg.sp - 2
             rg1 == [rg EXCEPT !.sp = sp]
         IN  IF ~InData(mm, sp) THEN StepPanic(rg1, mm)
             ELSE IF ~InData(mm, sp + 1)
                    THEN StepPanic(rg1, [mm EXCEPT ![sp + 1] = value \div 256])
             ELSE StepOk(2, rg1, [mm EXCEPT ![sp + 1] = value \div 256,
                                            ![sp + 2] = value % 256])

StepPOP(opcode, mm, rg, bld) ==
    IF rg.sp >= Len(mm) THEN StepErr("SEG", rg, mm)
    ELSE IF ~InData(mm, rg.sp + 1) THEN StepPanic(rg, mm)
    ELSE IF BitAnd(opcode, 255) = 0 /\ OpX(opcode) > 10 THEN StepErr("IOP", rg, mm)
    ELSE IF BitAnd(opcode, 255) = 0 /\ ~num_to_ptr(OpX(opcode)).some
           THEN StepPanic(rg, mm)
    ELSE IF BitAnd(opcode, 255) = 1 /\ BitAnd(opcode, 4080) # 0
           THEN StepErr("IOP", rg, mm)
    ELSE IF BitAnd(opcode, 255) > 1 THEN StepErr("IOP", rg, mm)
    ELSE LET value == BitOr(Shl16(mm[rg.sp + 1], 8), mm[rg.sp + 2])
             rg1 == IF BitAnd(opcode, 255) = 0
                      THEN Assign(rg, num_to_ptr(OpX(opcode)), value)
                      ELSE [rg EXCEPT !.fg = value]
         IN  IF Overflows(rg1.sp, 2, bld) THEN StepPanic(rg1, mm)
             ELSE StepOk(2, [rg1 EXCEPT !.sp = Wrap(rg1.sp + 2)], mm)

StepAND(opcode, mm, rg, bld) ==
    IF BitAnd(opcode, 15) # 0 THEN StepErr("IOP", rg, mm)
    ELSE IF OpX(opcode) >= 8 \/ OpY(opcode) >= 8 THEN StepErr("IOP", rg, mm)
    ELSE StepOk(2, [rg EXCEPT !.r[OpX(opcode) + 1] =
                        BitAnd(rg.r[OpX(opcode) + 1], rg.r[OpY(opcode) + 1])], mm)

StepNOT(opcode, mm, rg, bld) ==
    IF BitAnd(opcode, 255) # 0 THEN StepErr("IOP", rg, mm)
    ELSE IF OpX(opcode) >= 8 THEN StepErr("IOP", rg, mm)
    ELSE StepOk(2, [rg EXCEPT !.r[OpX(opcode) + 1] =
                        U16 - 1 - rg.r[OpX(opcode) + 1]], mm)

\* A shift by 16 or more aborts in a debug build; a release build shifts by
\* the count modulo 16.
StepSHR(opcode, mm, rg, bld) ==
    IF OpX(opcode) >= 8 THEN StepErr("IOP", rg, mm)
    ELSE IF bld = "debug" /\ BitAnd(opcode, 255) >= 16 THEN StepPanic(rg, mm)
    ELSE StepOk(2, [rg EXCEPT !.r[OpX(opcode) + 1] =
                        Shr16(rg.r[OpX(opcode) + 1], BitAnd(opcode, 255) % 16)], mm)

StepSHL(opcode, mm, rg, bld) ==
    IF OpX(opcode) >= 8 THEN StepErr("IOP", rg, mm)
    ELSE IF bld = "debug" /\ BitAnd(opcode, 255) >= 16 THEN StepPanic(rg, mm)
    ELSE StepOk(2, [rg EXCEPT !.r[OpX(opcode) + 1] =
                        Shl16(rg.r[OpX(opcode) + 1], BitAnd(opcode, 255) % 16)], mm)

StepADD(opcode, mm, rg, bld) ==
    IF BitAnd(opcode, 15) # 0 THEN StepErr("IOP", rg, mm)
    ELSE IF OpX(opcode) >= 8 \/ OpY(opcode) >= 8 THEN StepErr("IOP", rg, mm)
    ELSE IF Overflows(rg.r[OpX(opcode) + 1], rg.r[OpY(opcode) + 1], bld)
           THEN StepPanic(rg, mm)
    ELSE StepOk(2, [rg EXCEPT !.r[OpX(opcode) + 1] =
                        Wrap(rg.r[OpX(opcode) + 1] + rg.r[OpY(opcode) + 1])], mm)

\* The match of step() on the instruction of an opcode.
Execute(opcode, mm, rg, bld) ==
    CASE InstructionName(OpClass(opcode)) = "HLT" -> StepOk(0, rg, mm)
      [] InstructionName(OpClass(opcode)) = "CALL" -> StepCALL(opcode, mm, rg, bld)
      [] InstructionName(OpClass(opcode)) = "RET" -> StepRET(opcode, mm, rg, bld)
      [] InstructionName(OpClass(opcode)) = "JMP" -> StepJMP(opcode, mm, rg, bld)
      [] InstructionName(OpClass(opcode)) = "JNZ" -> StepJNZ(opcode, mm, rg, bld)
      [] InstructionName(OpClass(opcode)) = "MOV" -> StepMOV(opcode, mm, rg, bld)
      [] InstructionName(OpClass(opcode)) = "LDI" -> StepLDI(opcode, mm, rg, bld)
      [] InstructionName(OpClass(opcode)) = "LDA" -> StepLDA(opcode, mm, rg, bld)
      [] InstructionName(OpClass(opcode)) = "STA" -> StepSTA(opcode, mm, rg, bld)
      [] InstructionName(OpClass(opcode)) = "PUSH" -> StepPUSH(opcode, mm, rg, bld)
      [] InstructionName(OpClass(opcode)) = "POP" -> StepPOP(opcode, mm, rg, bld)
      [] InstructionName(OpClass(opcode)) = "AND" -> StepAND(opcode, mm, rg, bld)
      [] InstructionName(OpClass(opcode)) = "NOT" -> StepNOT(opcode, mm, rg, bld)
      [] InstructionName(OpClass(opcode)) = "SHR" -> StepSHR(opcode, mm, rg, bld)
      [] InstructionName(OpClass(opcode)) = "SHL" -> StepSHL(opcode, mm, rg, bld)
      [] InstructionName(OpClass(opcode)) = "ADD" -> StepADD(opcode, mm, rg, bld)

step(mm, rg, bld) ==
    IF fetch(mm, rg, bld).panic THEN StepPanic(rg, mm)
    ELSE Execute(fetch(mm, rg, bld).opcode, mm, rg, bld)

\* The loop of reset() from index i on: [panic, mem].
RECURSIVE ResetCopy(_, _, _, _, _)
ResetCopy(mm, pc, fw, i, bld) ==
    IF i >= Len(fw) % U16 THEN [panic |-> FALSE, mem |-> mm]
    ELSE IF Overflows(pc, i, bld) \/ ~InData(mm, Wrap(pc + i))
           THEN [panic |-> TRUE, mem |-> mm]
    ELSE ResetCopy([mm EXCEPT ![Wrap(pc + i) + 1] = fw[i + 1]], pc, fw, i + 1, bld)

(***************************************************************************)
(* The svirt process: main() of src/svirt/src/main.rs builds the machine,  *)
(* installs the ctrlc handler, then calls reset() and run().  Time is in   *)
(* nanoseconds.                                                            *)
(***************************************************************************)
Cps == {0, 5 * 10^8, 10^9, 2 * 10^9}

InitialPcs == {0, 1, 2}

MemorySizes == {0, 1, 16}

Firmwares ==
    { DefaultFirmware,
      <<216, 0>>,
      <<80, 16>>,
      <<16, 0>>,
      <<97, 4, 49, 0>>,
      <<97, 3, 49, 0>>,
      <<97, 15, 90, 16, 162, 0>>,
      <<97, 15, 114, 16>>,
      <<96, 3, 192, 0, 240, 0>>,
      <<96, 3, 224, 16>>,
      <<97, 8, 90, 16, 145, 0, 162, 0>>,
      <<97, 8, 129, 17, 114, 17, 114, 16, 32, 0>>,
      <<96, 3, 192, 0, 176, 0, 208, 1, 240, 0>>,
      <<97, 1, 66, 16>> }

Elapsed == {0, 1, 2}

NoStep == [pc |-> 0, opcode |-> 0, kind |-> "none", exc |-> ""]

NoRun == [flagAtCall |-> TRUE, setInRun |-> FALSE, started |-> FALSE, last |-> NoStep]

\* No machine has been built.
VmIdle ==
    /\ config = [cycles_per_second |-> 32, initial_pc |-> 0, memory_size |-> 0]
    /\ firmware = <<>>
    /\ mem = <<>>
    /\ regs = RegistersNew
    /\ should_run = TRUE
    /\ vloc = "off"
    /\ delta = 0
    /\ vghost = NoRun

\* parse_args and VirtualMachine::new; Memory::new aborts on a size of 0.
VMInit ==
    /\ build \in {"debug", "release"}
    /\ exec = ExecutableNew
    /\ phase = "vm"
    /\ ncalls = 0
    /\ last = NoOp
    /\ AsmIdle
    /\ \E cps \in Cps, ipc \in InitialPcs, size \in MemorySizes :
         /\ config = [cycles_per_second |-> cps, initial_pc |-> ipc, memory_size |-> size]
         /\ mem = MemoryNew(size)
         /\ vloc = IF size = 0 THEN "panic" ELSE "reset"
    /\ firmware \in Firmwares
    /\ regs = RegistersNew
    /\ should_run = TRUE
    /\ delta = 0
    /\ vghost = NoRun

reset ==
    /\ vloc = "reset"
    /\ \E c \in {ResetCopy(mem, config.initial_pc, firmware, 0, build)} :
         /\ mem' = c.mem
         /\ vloc' = IF c.panic THEN "panic" ELSE "run"
    /\ regs' = [regs EXCEPT !.pc = config.initial_pc]
    /\ UNCHANGED <<config, firmware, should_run, delta, vghost>>
    /\ UNCHANGED <<build, exec, phase, ncalls, last>>
    /\ UNCHANGED asmVars

delta_ceil == 10^9 \div config.cycles_per_second

\* run() is called: delta_ceil is computed (a division by zero aborts).
RunEnter ==
    /\ vloc = "run"
    /\ vloc' = IF config.cycles_per_second = 0 THEN "panic" ELSE "head"
    /\ delta' = 0
    /\ vghost' = [vghost EXCEPT !.flagAtCall = should_run]
    /\ UNCHANGED <<config, firmware, mem, regs, should_run>>
    /\ UNCHANGED <<build, exec, phase, ncalls, last>>
    /\ UNCHANGED asmVars

\* `while self.should_run.load(Ordering::Relaxed)`.
RunLoad ==
    /\ vloc = "head"
    /\ vloc' = IF should_run THEN "iter" ELSE "done"
    /\ UNCHANGED <<config, firmware, mem, regs, should_run, delta, vghost>>
    /\ UNCHANGED <<build, exec, phase, ncalls, last>>
    /\ UNCHANGED asmVars

\* RunPace with the comparison `delta > delta_ceil`.
RunPaceSlip ==
    /\ vloc = "iter"
    /\ \E e \in Elapsed :
         /\ delta + e <= MaxDelta
         /\ delta' = delta + e
         /\ vloc' = IF delta + e > delta_ceil THEN "step" ELSE "head"
         /\ vghost' = [vghost EXCEPT !.started = @ \/ delta + e > delta_ceil]
    /\ UNCHANGED <<config, firmware, mem, regs, should_run>>
    /\ UNCHANGED <<build, exec, phase, ncalls, last>>
    /\ UNCHANGED asmVars

\* The clock is read and `delta >= delta_ceil` is decided.
RunPace ==
    /\ vloc = "iter"
    /\ \E e \in Elapsed :
         /\ delta + e <= MaxDelta
         /\ delta' = delta + e
         /\ vloc' = IF delta + e >= delta_ceil THEN "step" ELSE "head"
         /\ vghost' = [vghost EXCEPT !.started = @ \/ delta + e >= delta_ceil]
    /\ UNCHANGED <<config, firmware, mem, regs, should_run>>
    /\ UNCHANGED <<build, exec, phase, ncalls, last>>
    /\ UNCHANGED asmVars

\* `match self.step()` and `delta -= delta_ceil`; an abort inside the match
\* leaves delta as it was.
RunStep ==
    /\ vloc = "step"
    /\ \E s \in {step(mem, regs, build)} :
         /\ mem' = s.mem
         /\ regs' = IF s.kind = "ok" THEN [s.regs EXCEPT !.pc = Wrap(s.regs.pc + s.s)]
                                     ELSE s.regs
         /\ vloc' = IF s.kind = "panic" \/ (s.kind = "ok" /\ Overflows(s.regs.pc, s.s, build))
                      THEN "panic" ELSE "head"
         /\ delta' = IF s.kind = "panic" \/ (s.kind = "ok" /\ Overflows(s.regs.pc, s.s, build))
                       THEN delta ELSE delta - delta_ceil
         /\ vghost' = [vghost EXCEPT !.last = [pc |-> regs.pc,
                                               opcode |-> fetch(mem, regs, build).opcode,
                                               kind |-> s.kind, exc |-> s.exc]]
    /\ UNCHANGED <<config, firmware, should_run>>
    /\ UNCHANGED <<build, exec, phase, ncalls, last>>
    /\ UNCHANGED asmVars

\* A handler that stores the negation of the flag.
HandlerSlip ==
    /\ vloc \in {"reset", "run", "head", "iter", "step", "done"}
    /\ should_run' = ~ should_run
    /\ vghost' = [vghost EXCEPT !.setInRun = @ \/ vloc \in {"head", "iter", "step"}]
    /\ UNCHANGED <<config, firmware, mem, regs, vloc, delta>>
    /\ UNCHANGED <<build, exec, phase, ncalls, last>>
    /\ UNCHANGED asmVars

\* The ctrlc handler thread: `should_run.store(false, Ordering::Relaxed)`.
Handler ==
    /\ vloc \in {"reset", "run", "head", "iter", "step", "done"}
    /\ should_run' = FALSE
    /\ vghost' = [vghost EXCEPT !.setInRun = @ \/ vloc \in {"head", "iter", "step"}]
    /\ UNCHANGED <<config, firmware, mem, regs, vloc, delta>>
    /\ UNCHANGED <<build, exec, phase, ncalls, last>>
    /\ UNCHANGED asmVars

VMNext == reset \/ RunEnter \/ RunLoad \/ RunPace \/ RunStep \/ Handler

SpecVM == VMInit /\ [][VMNext]_vars

\* The main thread is scheduled: each of its steps that stays possible is
\* taken.  The last conjunct is WF_vars(RunStep) with ENABLED <<RunStep>>_vars
\* written out as vloc = "step".
VMFair ==
    /\ WF_vars(reset)
    /\ WF_vars(RunEnter)
    /\ WF_vars(RunLoad)
    /\ WF_vars(RunPace)
    /\ ([]<>(vloc # "step") \/ []<><<RunStep>>_vars)

\* The machine is built with the built-in firmware (no --firmware option) and
\* the default initial_pc.
BootInit == VMInit /\ firmware = DefaultFirmware /\ config.initial_pc = 0

SpecBoot == BootInit /\ [][VMNext]_vars /\ VMFair


(***************************************************************************)
(* The Executable called directly.                                         *)
(***************************************************************************)
ExecInit ==
    /\ build \in {"debug", "release"}
    /\ exec = ExecutableNew
    /\ phase = "api"
    /\ ncalls = 0
    /\ last = NoOp
    /\ AsmIdle
    /\ VmIdle

ExecSetAddress ==
    /\ phase = "api"
    /\ ncalls < MaxCalls
    /\ \E a \in ExecAddrs :
         /\ exec' = SetAddress(exec, a)
         /\ last' = [op |-> "set_address", arg |-> a, before |-> exec]
    /\ ncalls' = ncalls + 1
    /\ UNCHANGED <<build, phase>>
    /\ UNCHANGED asmVars
    /\ UNCHANGED vmVars

ExecPushShort ==
    /\ phase = "api"
    /\ ncalls < MaxCalls
    /\ \E s \in ExecShorts :
         LET r == PushShort(exec, s, build)
         IN  /\ exec' = r.exec
             /\ phase' = IF r.panic THEN "panic" ELSE "api"
             /\ last' = [op |-> "push_short", arg |-> s, before |-> exec]
    /\ ncalls' = ncalls + 1
    /\ UNCHANGED build
    /\ UNCHANGED asmVars
    /\ UNCHANGED vmVars

ExecNext == ExecSetAddress \/ ExecPushShort

SpecExec == ExecInit /\ [][ExecNext]_vars

(***************************************************************************)
(* The assembler process: main() of src/sasm/src/main.rs.                  *)
(***************************************************************************)
\* The label names the sources below are written with: `ab` is made of
\* hexadecimal digits, `abc` and `cba` have nine characters and differ in the
\* first and the last, `long` has seventeen (three groups of eight).
Names ==
    [start |-> <<"_", "s", "t", "a", "r", "t">>,
     foo   |-> <<"f", "o", "o">>,
     ab    |-> <<"a", "b">>,
     bar   |-> <<"b", "a", "r">>,
     loop  |-> <<"l", "o", "o", "p">>,
     abc   |-> <<"a", "b", "b", "b", "b", "b", "b", "b", "c">>,
     cba   |-> <<"c", "b", "b", "b", "b", "b", "b", "b", "a">>,
     long  |-> <<"a", "b", "b", "b", "b", "b", "b", "b", "c",
                 "d", "e", "f", "g", "h", "i", "j", "k">>]

Reg(c, d) == <<c, d>>

Line(kind, head, text, args) ==
    [kind |-> kind, head |-> head, text |-> text, args |-> args]

Label(name) == Line("label", ":", name, <<<<>>>>)

Dir(head, arg) == Line("directive", head, <<>>, <<arg>>)

Ins0(head) == Line("instruction", head, <<>>, <<<<>>>>)

Ins1(head, a) == Line("instruction", head, <<>>, <<a>>)

Ins2(head, a, b) == Line("instruction", head, <<>>, <<a, b>>)

\* The lines every position of a source ranges over.
CoreLines ==
    { Label(Names.start), Label(Names.foo),
      Dir("addr", <<"8">>), Dir("addr", <<"0", "x", "1", "0">>),
      Dir("short", Names.foo), Ins0("nop"), Ins1("push", Reg("r", "1")) }

\* One line of every other kind; the first line of a source ranges over these too.
OtherLines ==
    { Dir("short", <<"5">>),
      Ins2("and", Reg("r", "1"), Reg("r", "2")), Ins1("not", Reg("r", "1")),
      Ins2("add", Reg("r", "1"), Reg("r", "2")),
      Ins2("sub", Reg("r", "1"), Reg("r", "2")),
      Ins1("inc", Reg("r", "1")), Ins1("dec", <<"s", "p">>),
      Ins2("ldb", Reg("r", "1"), Reg("r", "2")),
      Ins2("ldw", Reg("r", "1"), <<"s", "p">>),
      Ins2("mov", Reg("c", "0"), Reg("c", "1")),
      Ins2("ldi", Reg("r", "0"), <<"7">>),
      Ins2("stb", Reg("r", "1"), Reg("r", "2")),
      Ins2("stw", <<"s", "p">>, Reg("r", "2")),
      Ins1("jmp", Reg("r", "0")), Ins2("jnz", Reg("r", "1"), Reg("r", "2")),
      Ins2("shr", Reg("r", "1"), <<"3">>), Ins2("shl", Reg("r", "1"), <<"8">>),
      Ins1("test", <<"3">>), Ins1("setf", <<"1", "5">>), Ins1("clrf", <<"0">>),
      Ins1("pop", Reg("r", "1")),
      Ins2("ldl", Reg("r", "0"), Names.start),
      Ins2("ldl", Reg("c", "9"), <<"0">>),
      Ins1("call", Reg("r", "2")),
      Ins2("callf", Reg("r", "2"), Reg("r", "3")),
      Ins1("ret", Reg("r", "1")) }

AsmLinesAt(n) == IF n = 1 THEN CoreLines \cup OtherLines ELSE CoreLines

Entries == {Names.start}

\* parse_args: the options are read; the files are read line by line below.
AsmInitWith(options) ==
    /\ build \in {"debug", "release"}
    /\ exec = ExecutableNew
    /\ phase = "tokenize"
    /\ ncalls = 0
    /\ last = NoOp
    /\ \E e \in Entries, t \in options :
         /\ opts = [trampoline |-> t, entry |-> e]
         /\ job = IF t THEN JobTrampoline([JobNew EXCEPT !.entry = e])
                      ELSE [JobNew EXCEPT !.entry = e]
    /\ src = <<>>
    /\ tokens = <<>>
    /\ labels = NoLabels
    /\ ti = 1
    /\ trace1 = <<>>
    /\ trace2 = <<>>
    /\ VmIdle

AsmInit == AsmInitWith(BOOLEAN)

\* One iteration of the loop of tokenize() on the next line of the input.
TokenizeLine(line) ==
    /\ phase = "tokenize"
    /\ src' = Append(src, line)
    /\ IF job.address >= U16 - 1
         THEN /\ phase' = "fatal"
              /\ UNCHANGED <<job, tokens, trace1>>
         ELSE \E g \in {gen_token(job, line)} :
                IF g.fatal
                  THEN /\ phase' = "fatal"
                       /\ UNCHANGED <<job, tokens, trace1>>
                  ELSE /\ job' = [job EXCEPT !.address = g.address,
                                             !.trampoline = g.trampoline]
                       /\ tokens' = Append(tokens, g.tok)
                       /\ trace1' = Append(trace1, [before |-> job.address,
                                                    after |-> g.address])
                       /\ phase' = "tokenize"
    /\ UNCHANGED <<build, exec, ncalls, last, opts, labels, ti, trace2>>
    /\ UNCHANGED vmVars

Tokenize ==
    /\ Len(src) < MaxLines
    /\ \E line \in AsmLinesAt(Len(src) + 1) : TokenizeLine(line)

\* The input is exhausted: the end of tokenize(), then the start of
\* gen_executable() with collect_labels().
EndTokenize ==
    /\ phase = "tokenize"
    /\ \E c \in {collect_labels(TrampolineTokens(job) \o tokens)} :
           /\ tokens' = TrampolineTokens(job) \o tokens
           /\ labels' = c.labels
           /\ phase' = IF c.fatal THEN "fatal" ELSE "emit"
    /\ UNCHANGED <<build, exec, ncalls, last, opts, job, src, ti, trace1, trace2>>
    /\ UNCHANGED vmVars

\* One iteration of the loop of gen_executable().
Emit ==
    /\ phase = "emit"
    /\ ti <= Len(tokens)
    /\ \E w \in {TokenWords(tokens[ti], labels)} :
         IF w.fatal
           THEN /\ phase' = "fatal"
                /\ UNCHANGED <<exec, ti, trace2>>
           ELSE \E r \in {PushShorts(exec, w.words, build)} :
                /\ exec' = IF tokens[ti].op = "addr"
                             THEN SetAddress(exec, tokens[ti].x)
                             ELSE r.exec
                /\ phase' = IF r.panic THEN "panic" ELSE "emit"
                /\ ti' = ti + 1
                /\ trace2' = Append(trace2, [cursor |-> exec.address,
                                             words |-> w.words])
    /\ UNCHANGED <<build, ncalls, last, opts, job, src, tokens, labels, trace1>>
    /\ UNCHANGED vmVars

\* gen_executable() returns and write_output() writes the bytes.
WriteOutput ==
    /\ phase = "emit"
    /\ ti > Len(tokens)
    /\ phase' = "written"
    /\ UNCHANGED <<build, exec, ncalls, last, opts, job, src, tokens, labels, ti, trace1, trace2>>
    /\ UNCHANGED vmVars

AsmNext == Tokenize \/ EndTokenize \/ Emit \/ WriteOutput

SpecAsm == AsmInit /\ [][AsmNext]_vars

Spec == SpecAsm

(***************************************************************************)
(* Single native instructions: every mnemonic with every operand text      *)
(* below, alone in the source or after one `.addr`.                        *)
(***************************************************************************)
RegTexts == { Reg("r", "0"), Reg("r", "1"), Reg("r", "7"), Reg("r", "8"),
              <<"s", "p">>, Reg("c", "0"), Reg("c", "1"), Reg("c", "2"),
              <<"r", "1", "0">> }

ImmTexts == { <<"0">>, <<"8">>, <<"1", "5">>, <<"1", "6">>,
              <<"1", "7", "3">>, <<"2", "5", "5">>, <<"2", "5", "6">> }

NativeLines ==
    {Ins0("nop")}
    \cup {Ins2(h, a, b) : h \in RR, a \in RegTexts, b \in RegTexts}
    \cup {Ins1(h, a) : h \in R1, a \in RegTexts}
    \cup {Ins2(h, a, n) : h \in RI, a \in RegTexts, n \in ImmTexts}
    \cup {Ins1(h, n) : h \in I1, n \in ImmTexts}

TokenizeOrigin ==
    /\ src = <<>>
    /\ TokenizeLine(Dir("addr", <<"0", "x", "1", "0">>))

TokenizeNative ==
    /\ \A i \in 1..Len(src) : src[i].kind = "directive"
    /\ \E line \in NativeLines : TokenizeLine(line)

EncNext == TokenizeOrigin \/ TokenizeNative \/ EndTokenize \/ Emit \/ WriteOutput

SpecEnc == AsmInit /\ [][EncNext]_vars

(***************************************************************************)
(* Sources that reach the top of the 16-bit address space.                 *)
(***************************************************************************)
BigLines ==
    { Dir("addr", <<"0", "x", "F", "F", "F", "E">>), Label(Names.foo),
      Ins0("nop"), Ins1("push", Reg("r", "1")), Ins1("call", Reg("r", "2")) }

TokenizeBig ==
    /\ Len(src) < MaxLines
    /\ \E line \in BigLines : TokenizeLine(line)

BigNext == TokenizeBig \/ EndTokenize \/ Emit \/ WriteOutput

SpecBig == AsmInit /\ [][BigNext]_vars

(***************************************************************************)
(* Sources with references to labels, before and after their definition;   *)
(* `ab` is a label whose name is made of hexadecimal digits.                *)
(***************************************************************************)
RefLines ==
    { Label(Names.foo), Label(Names.ab), Ins0("nop"),
      Dir("short", Names.foo), Dir("short", Names.ab), Dir("short", Names.bar),
      Ins2("ldl", Reg("r", "1"), Names.foo), Ins2("ldl", Reg("r", "1"), Names.ab),
      Ins2("ldl", Reg("r", "1"), Names.bar) }

TokenizeRef ==
    /\ Len(src) < MaxLines
    /\ \E line \in RefLines : TokenizeLine(line)

RefNext == TokenizeRef \/ EndTokenize \/ Emit \/ WriteOutput

SpecRef == AsmInit /\ [][RefNext]_vars

(***************************************************************************)
(* Whole programs: the minimal program with its immediates written in hex  *)
(* or in decimal, and `.addr A` / `L:` / one instruction / `.short L`.     *)
(***************************************************************************)
Minimal(de, ad) ==
    << Label(Names.start), Ins2("ldi", Reg("r", "0"), de),
       Ins2("shl", Reg("r", "0"), <<"8">>),
       Ins2("ldi", Reg("r", "0"), ad), Ins1("jmp", Reg("r", "0")) >>

MinimalHex == Minimal(<<"0", "x", "D", "E">>, <<"0", "x", "A", "D">>)

MinimalDec == Minimal(<<"2", "2", "2">>, <<"1", "7", "3">>)

AddrTexts == { <<"0", "x", "0", "0", "1", "0">>, <<"1", "6">>, <<"8">>, <<"0">> }

RoundTrip(a, name, ins) == << Dir("addr", a), Label(name), ins, Dir("short", name) >>

\* Operands of `.short` and `ldl`: decimal, `0x` hex, and names; 0x6261 is
\* the id of the name `ab`.
ValueTexts ==
    { <<"1", "0">>, <<"1", "6">>, <<"0", "x", "1", "0">>, <<"0", "x", "A", "B">>,
      <<"0", "x", "6", "2", "6", "1">>, Names.ab, Names.loop }

\* Two label definitions, then one line with a value operand.
ValuePrograms ==
    { <<Label(Names.loop), Label(Names.ab), line>> :
        line \in {Dir("short", t) : t \in ValueTexts}
                 \cup {Ins2("ldl", Reg("r", "0"), t) : t \in ValueTexts} }

\* A definition of one long name and a reference to one.
LongNamePrograms ==
    { <<Ins0("nop"), Label(d), line>> :
        d \in {Names.abc, Names.cba},
        line \in {Dir("short", Names.abc), Dir("short", Names.cba),
                  Ins2("ldl", Reg("r", "0"), Names.cba), Label(Names.cba)} }

IdPrograms ==
    { <<Label(nm), Dir("short", r)>> : nm \in {Names.long, <<>>}, r \in {Names.long, Names.loop} }

\* `push x` then `pop y`, and one `ldl x, 0x12CD`.
StackPrograms ==
    { <<Ins1("push", x), Ins1("pop", y)>> :
        x \in {Reg("r", "0"), Reg("r", "1"), Reg("r", "7"), <<"s", "p">>},
        y \in {Reg("r", "0"), Reg("r", "1"), Reg("r", "7"), <<"s", "p">>} }
    \cup { <<Ins2("ldl", x, <<"0", "x", "1", "2", "C", "D">>)>> :
              x \in {Reg("r", "1"), Reg("r", "7"), <<"s", "p">>, Reg("c", "1")} }

Programs ==
    {MinimalHex, MinimalDec}
    \cup ValuePrograms
    \cup LongNamePrograms
    \cup IdPrograms
    \cup StackPrograms
    \cup { RoundTrip(a, name, ins) :
             a \in AddrTexts, name \in {Names.loop, Names.ab, Names.start},
             ins \in {Ins1("jmp", Reg("r", "0")), Ins0("nop")} }

\* The next line of one of the programs is read.
TokenizeProg ==
    \E p \in Programs :
        /\ Len(src) < Len(p)
        /\ src = SubSeq(p, 1, Len(src))
        /\ TokenizeLine(p[Len(src) + 1])

ProgNext == TokenizeProg \/ EndTokenize \/ Emit \/ WriteOutput

SpecProg == AsmInit /\ [][ProgNext]_vars

(***************************************************************************)
(* Properties of the assembler.                                            *)
(***************************************************************************)
\* Number of tokens tokenize() put in front of the source's tokens.
Prepended == Len(tokens) - Len(trace1)

\* Pass 2 has started: `tokens` is the stream gen_executable() walks.
InPass2 == phase \in {"emit", "written"} \/ (phase \in {"fatal", "panic"} /\ ti > 1)

Consumed == IF phase = "tokenize" THEN {} ELSE 1..Len(trace2)

\* C1: for every label definition of every accepted source, the address
\* stored in its Label token in pass 1, which is the address the label table
\* resolves its id to, equals the Executable write cursor at the moment pass 2
\* reaches that token.
C1_LabelAddressIsEmitterCursor ==
    \A i \in Consumed :
        tokens[i].op = "label" =>
            /\ tokens[i].x = trace2[i].cursor
            /\ labels[tokens[i].k] = trace2[i].cursor

\* The sizes the claim lists, by token kind.
ListedSize(op) ==
    CASE op \in {"push", "pop", "ldl"} -> 6
      [] op = "ret" -> 8
      [] op = "callf" -> 14
      [] op = "call" -> 34
      [] op \in {"label", "addr"} -> 0
      [] OTHER -> 2

\* The token of source line i while pass 1 runs and afterwards.
LineToken(i) == tokens[i + Prepended]

Lines1 == 1..Len(trace1)

\* Pass 1 adds to its cursor, for each line other than `.addr`, the listed size.
SizesPass1(rewinds) ==
    \A i \in Lines1 :
        LET op == LineToken(i).op
            d == trace1[i].after - trace1[i].before
        IN  /\ op \notin {"addr", "label"} => d = ListedSize(op)
            /\ op = "label" =>
                  \/ d = 0
                  \/ /\ rewinds
                     /\ d = 0 - 8
                     /\ opts.trampoline
                     /\ src[i].text = opts.entry
                     /\ trace1[i].before = 8

\* Pass 2 writes, for each token it emits to the end, the listed number of
\* bytes, and its 16-bit cursor moves on by as much.
SizesPass2 ==
    \A i \in Consumed :
        (tokens[i].op # "addr" /\ ~(phase = "panic" /\ i = Len(trace2))) =>
            /\ 2 * Len(trace2[i].words) = ListedSize(tokens[i].op)
            /\ i + 1 \in Consumed =>
                   trace2[i + 1].cursor = (trace2[i].cursor + ListedSize(tokens[i].op)) % U16

\* The cursor before source line i, computed from the listed sizes alone:
\* [at, tr] with tr the trampoline flag still set.
RECURSIVE CursorBefore(_)
CursorBefore(i) ==
    IF i = 1 THEN [at |-> IF opts.trampoline THEN 8 ELSE 0, tr |-> opts.trampoline]
    ELSE LET p == CursorBefore(i - 1)
             t == LineToken(i - 1)
         IN  IF t.op = "addr" THEN [at |-> t.x, tr |-> p.tr]
             ELSE IF t.op = "label" /\ p.tr /\ src[i - 1].text = opts.entry /\ p.at = 8
               THEN [at |-> 0, tr |-> FALSE]
             ELSE [at |-> p.at + ListedSize(t.op), tr |-> p.tr]

\* The sum of the listed sizes of the tokens before token i of the stream.
RECURSIVE SizesBefore(_)
SizesBefore(i) ==
    IF i = 1 THEN 0 ELSE SizesBefore(i - 1) + ListedSize(tokens[i - 1].op)

\* C2 as written: the listed sizes in both passes, a label adding 0, and a
\* label's address being the sum of the emission sizes before it.
C2_SizesAndLabelSum ==
    /\ SizesPass1(FALSE)
    /\ SizesPass2
    /\ InPass2 =>
         \A i \in 1..Len(tokens) :
             tokens[i].op = "label" => tokens[i].x = SizesBefore(i)

\* C2 as amended: the listed sizes in both passes (in pass 2 for each token
\* emitted to the end), a label adding 0 unless it is the entry label met at
\* cursor 8 with the trampoline pending (which takes 8 off), and a label's
\* address being the low 16 bits of the cursor set by the last `.addr` or
\* rewind before it (initially 0, or 8 with the trampoline option) plus the
\* listed sizes of the lines since.
C2_SizesAndLabelBase ==
    /\ SizesPass1(TRUE)
    /\ SizesPass2
    /\ \A i \in Lines1 :
           LineToken(i).op = "label" =>
               LineToken(i).x =
                   IF CursorBefore(i).tr /\ src[i].text = opts.entry
                      /\ CursorBefore(i).at = 8
                     THEN 0 ELSE CursorBefore(i).at % U16

\* A source with a pseudo-instruction, a `.addr` and a label after them has
\* been assembled to the end.
C2_Witness ==
    /\ phase = "written"
    /\ \E i, k, m \in 1..Len(tokens) :
           /\ i < k /\ k < m
           /\ tokens[i].op \in {"push", "call", "callf", "ret", "ldl", "pop"}
           /\ tokens[k].op = "addr"
           /\ tokens[m].op = "label"

\* The native instructions a token stands for, in emission order.
IntendedOps(op) ==
    CASE op = "push" -> <<"dec", "dec", "stw">>
      [] op = "pop" -> <<"ldw", "inc", "inc">>
      [] op = "ldl" -> <<"ldi", "shl", "ldi">>
      [] op = "call" -> <<"dec", "dec", "dec", "dec", "stw", "inc", "inc",
                          "ldi", "shl", "ldi", "stw", "dec", "dec", "ldw",
                          "inc", "inc", "jmp">>
      [] op = "callf" -> <<"ldi", "shl", "ldi", "dec", "dec", "stw", "jmp">>
      [] op = "ret" -> <<"ldw", "inc", "inc", "jmp">>
      [] op \in {"short", "addr", "label"} -> <<>>
      [] OTHER -> <<op>>

FieldX(w) == (w \div 256) % 16

FieldY(w) == (w \div 16) % 16

\* The register fields of a word of instruction op.
RegFields(op, w) ==
    IF op \in RR THEN {FieldX(w), FieldY(w)}
    ELSE IF op \in R1 \cup RI THEN {FieldX(w)}
    ELSE {}

\* C8: in every word emitted for a native instruction and for every word of
\* every pseudo-instruction expansion (the trampoline included), each
\* register field is at most 0x0A and the class nibble is that of the
\* intended instruction.
C8_RegisterFieldsAndClass ==
    \A i \in Consumed :
        LET ops == IntendedOps(tokens[i].op)
            ws == trace2[i].words
        IN  ops # <<>> =>
              /\ Len(ws) = Len(ops)
              /\ \A n \in 1..Len(ops) :
                    /\ ws[n] \div 4096 = Base(ops[n]) \div 4096
                    /\ \A f \in RegFields(ops[n], ws[n]) : f <= 10

\* The stream ends with a `.addr` after which no token wrote a byte.
TrailingAddr ==
    \E i \in 1..Len(tokens) :
        /\ tokens[i].op = "addr"
        /\ \A n \in (i + 1)..Len(tokens) : trace2[n].words = <<>>

\* C10: for every accepted source, the tokenizer cursor after the last line
\* equals the Executable write cursor after the last token, and both equal
\* the output length, a trailing `.addr` with nothing written after it
\* excepted.
C10_CursorsAndLength ==
    phase = "written" =>
        /\ job.address = exec.address
        /\ ~ TrailingAddr => exec.address = Len(exec.bytes)

Natives == {"nop"} \cup RR \cup R1 \cup RI \cup I1

\* The instruction table: class (bits 15..12) and sub-opcode (bits 1..0).
TableClass(op) ==
    CASE op = "nop" -> 0
      [] op \in {"and", "not"} -> 1
      [] op \in {"add", "sub", "inc", "dec"} -> 2
      [] op \in {"ldb", "ldw", "mov"} -> 3
      [] op = "ldi" -> 4
      [] op \in {"stb", "stw"} -> 5
      [] op \in {"jmp", "jnz"} -> 6
      [] op \in {"shr", "shl"} -> 7
      [] op \in {"test", "setf", "clrf"} -> 8

TableSub(op) ==
    CASE op \in {"nop", "and", "add", "ldb", "ldi", "stb", "jmp", "shr", "test"} -> 0
      [] op \in {"not", "sub", "ldw", "stw", "jnz", "shl", "setf"} -> 1
      [] op \in {"inc", "mov", "clrf"} -> 2
      [] op = "dec" -> 3

\* The word of the table for a native token, field by field.
TableWord(t) ==
    TableClass(t.op) * 4096 + TableSub(t.op)
    + (IF t.op \in RR THEN t.x * 256 + t.y * 16
       ELSE IF t.op \in R1 THEN t.x * 256
       ELSE IF t.op = "ldi" THEN t.x * 256 + t.y
       ELSE IF t.op \in {"shr", "shl"} THEN t.x * 256 + (t.y % 16) * 16
       ELSE IF t.op \in I1 THEN (t.x % 16) * 256
       ELSE 0)

\* C3: for every native instruction token whose operands are inside the
\* ranges of the instruction table, the word gen_executable() emits is the
\* table's pattern (class, operands, immediate, shift count, flag index,
\* sub-opcode), stored low byte first.
C3_NativeEncoding ==
    \A i \in Consumed :
        tokens[i].op \in Natives =>
            /\ trace2[i].words = <<TableWord(tokens[i])>>
            /\ exec.bytes[trace2[i].cursor + 1] = TableWord(tokens[i]) % 256
            /\ exec.bytes[trace2[i].cursor + 2] = TableWord(tokens[i]) \div 256

\* `stw sp, r7` has been emitted at 0x0010.
C3_Witness ==
    \E i \in Consumed :
        /\ tokens[i].op = "stw" /\ tokens[i].x = 8 /\ tokens[i].y = 7
        /\ trace2[i].cursor = 16
        /\ Len(exec.bytes) = 18

\* Pass 1 ended without a fatal error.
Pass1Done == phase # "tokenize" /\ Len(src) = Len(trace1)

\* C9: either tokenize() fails with 'Exceeded maximum binary size' or the
\* pass-1 cursor is at most 0xFFFF after the last line; so the addresses
\* stored in Label, CALL and CALLF tokens are not truncated and the
\* Executable's 16-bit cursor never overflows in pass 2.
C9_CursorWithin16Bits ==
    Pass1Done =>
        /\ job.address <= 65535
        /\ \A i \in Lines1 :
               /\ LineToken(i).op = "label" => LineToken(i).x = trace1[i].after
               /\ LineToken(i).op = "call" => LineToken(i).y = trace1[i].after
               /\ LineToken(i).op = "callf" => LineToken(i).z = trace1[i].after
        /\ phase # "panic"
        /\ \A i \in Consumed :
               (i + 1 \in Consumed /\ tokens[i].op # "addr") =>
                   trace2[i + 1].cursor = trace2[i].cursor + 2 * Len(trace2[i].words)

\* What the buffer description says one written byte does to the bytes.
DescribedWrite(bytes, cursor, b) ==
    IF cursor = Len(bytes) THEN Append(bytes, b)
    ELSE IF cursor < Len(bytes) THEN [bytes EXCEPT ![cursor + 1] = b]
    ELSE bytes \o Zeros(cursor - Len(bytes)) \o <<b>>

\* C4: after any sequence of set_address and push_short calls, each byte
\* written at cursor == len is appended, at cursor < len replaces the byte
\* at index cursor, at cursor > len is appended after zero bytes for
\* len..cursor-1, and the cursor afterwards is the old cursor plus 1 (so a
\* push_short writes its low byte, then its high byte, and adds 2).
C4_BufferWrite ==
    last.op = "push_short" =>
        LET b == last.before
            lo == last.arg % 256
            hi == last.arg \div 256
        IN  /\ exec.bytes = DescribedWrite(DescribedWrite(b.bytes, b.address, lo),
                                           b.address + 1, hi)
            /\ exec.address = b.address + 2

\* The assembler mnemonic of the instruction step() executes for an opcode.
VmMnemonic(opcode) ==
    CASE InstructionName(OpClass(opcode)) = "LDA" ->
             IF BitAnd(opcode, 15) = 0 THEN "ldb"
             ELSE IF BitAnd(opcode, 15) = 1 THEN "ldw" ELSE "?"
      [] InstructionName(OpClass(opcode)) = "STA" ->
             IF BitAnd(opcode, 15) = 0 THEN "stb"
             ELSE IF BitAnd(opcode, 15) = 1 THEN "stw" ELSE "?"
      [] OTHER ->
             <<"hlt", "call", "ret", "jmp", "jnz", "mov", "ldi", "lda",
               "sta", "push", "pop", "and", "not", "shr", "shl", "add">>[OpClass(opcode) + 1]

\* The VM executes opcode as the instruction and operands of token t.
VmAgrees(t, opcode) ==
    /\ VmMnemonic(opcode) = t.op
    /\ t.op \in RR \cup R1 \cup RI => OpX(opcode) = t.x
    /\ t.op \in RR => OpY(opcode) = t.y
    /\ t.op \in RI => BitAnd(opcode, 255) = t.y

\* C5: every word the assembler emits for a native instruction, stored low
\* byte first, is fetched by the VM from the image and decoded by step() as
\* that same instruction with the same operands.
C5_WireFormatAgrees ==
    \A i \in Consumed :
        (tokens[i].op \in Natives /\ phase \in {"emit", "written"}) =>
            LET f == fetch(exec.bytes, [RegistersNew EXCEPT !.pc = trace2[i].cursor], build)
            IN  ~f.panic /\ VmAgrees(tokens[i], f.opcode)

\* C6: once the handler has stored false while run() executes, run() still
\* returns (it is never aborted in the step in progress and it stops at the
\* next load of the flag); and if the flag is false when run() is called, no
\* step is executed.
C6_RunReturnsOnFlag ==
    /\ vghost.setInRun => vloc # "panic"
    /\ (vloc \in {"head", "iter", "step", "done"} /\ ~vghost.flagAtCall) => ~vghost.started

\* C7: a step() that detects a fault sets the bit of the fault in FG (IOP
\* bit 15, SEG bit 14) and the program counter moves off the faulting
\* instruction.
C7_FaultSetsFlagAndAdvances ==
    vghost.last.kind = "err" =>
        /\ vghost.last.exc = "IOP" => BitAnd(regs.fg, 32768) # 0
        /\ vghost.last.exc = "SEG" => BitAnd(regs.fg, 16384) # 0
        /\ regs.pc # vghost.last.pc

\* The bytes of a sequence of words, each low byte first.
RECURSIVE LeBytes(_)
LeBytes(ws) ==
    IF ws = <<>> THEN <<>> ELSE <<ws[1] % 256, ws[1] \div 256>> \o LeBytes(Tail(ws))

\* The trampoline option is on and the first line of the source is `E:`.
EntryFirst ==
    /\ phase = "written"
    /\ opts.trampoline
    /\ Len(src) >= 1
    /\ src[1].kind = "label"
    /\ src[1].text = opts.entry

\* C11 as written: with the trampoline option and entry label E, when `E:`
\* is the first item of the source, the image begins with the 8 bytes of
\* `ldl r0,<address of E>; jmp r0` and the code following `E:` starts at 8.
C11_TrampolineThenEntryAt8 ==
    EntryFirst =>
        /\ LineToken(1).x = 8
        /\ Len(exec.bytes) >= 8
        /\ SubSeq(exec.bytes, 1, 8) = LeBytes(LdlWords(0, 8) \o <<24576>>)

\* C11 as amended: with the trampoline option and entry label E, when `E:`
\* is the first item of the source, no trampoline is emitted: E resolves to
\* 0 and the code following `E:` starts at offset 0.
C11_EntryFirstNoTrampoline ==
    EntryFirst =>
        /\ Prepended = 0
        /\ tokens[1].op = "label" /\ tokens[1].x = 0
        /\ labels[calculate_label_id(opts.entry)] = 0
        /\ trace2[1].cursor = 0
        /\ Len(trace2) >= 2 => trace2[2].cursor = 0

\* `-T` with `_start:` then `nop` has been assembled to the two bytes of nop.
C11_Witness ==
    /\ EntryFirst
    /\ Len(src) = 2 /\ src[2].head = "nop"
    /\ exec.bytes = <<0, 0>>

\* The instruction table as an executor, for the instructions the
\* expansions are made of: a state is [r, pc, m] with r over 0..10 (8 is SP)
\* and m the bytes of the stack.
TableExec(st, w) ==
    LET class == w \div 4096
        sub == w % 4
        X == FieldX(w)
        Y == FieldY(w)
        next == [st EXCEPT !.pc = (st.pc + 2) % U16]
        rd(a) == IF a \in DOMAIN st.m THEN st.m[a] ELSE 0
        wr(m, a, b) == IF a \in DOMAIN m THEN [m EXCEPT ![a] = b] ELSE m
    IN  IF class = 2 /\ sub = 2 THEN [next EXCEPT !.r[X] = (st.r[X] + 1) % U16]
        ELSE IF class = 2 /\ sub = 3 THEN [next EXCEPT !.r[X] = (st.r[X] - 1) % U16]
        ELSE IF class = 3 /\ sub = 1
          THEN [next EXCEPT !.r[X] = rd(st.r[Y]) + 256 * rd((st.r[Y] + 1) % U16)]
        ELSE IF class = 4
          THEN [next EXCEPT !.r[X] = (st.r[X] \div 256) * 256 + (w % 256)]
        ELSE IF class = 5 /\ sub = 1
          THEN [next EXCEPT !.m = wr(wr(st.m, st.r[X], (st.r[Y] % 256)),
                                     (st.r[X] + 1) % U16, st.r[Y] \div 256)]
        ELSE IF class = 7 /\ sub = 1
          THEN [next EXCEPT !.r[X] = (st.r[X] * Pow2(Y)) % U16]
        ELSE IF class = 6 /\ sub = 0 THEN [st EXCEPT !.pc = st.r[X]]
        ELSE next

RECURSIVE TableRun(_, _)
TableRun(st, ws) ==
    IF ws = <<>> THEN st ELSE TableRun(TableExec(st, ws[1]), Tail(ws))

CallTargets == {256, 4660}

CallStacks == {16384}

\* Token i is a `call x`: its emitted words, run from its address with
\* Rx = T and SP = S, end with PC = T, SP = S - 2 and mem16[S - 2] = back;
\* the words of any `ret y` then set PC to back and SP to S.
CallRoundTrip(i, back) ==
    \A T \in CallTargets, S \in CallStacks :
        LET st0 == [r |-> [n \in 0..10 |-> IF n = tokens[i].x THEN T
                                           ELSE IF n = 8 THEN S ELSE 0],
                    pc |-> trace2[i].cursor,
                    m |-> [a \in (S - 4)..(S - 1) |-> 0]]
            st1 == TableRun(st0, trace2[i].words)
        IN  /\ st1.pc = T
            /\ st1.r[8] = S - 2
            /\ st1.m[S - 2] + 256 * st1.m[S - 1] = back
            /\ \A y \in 0..7 :
                   LET st2 == TableRun(st1, TokenWords(Tok("ret", y, 0, 0, Zero64, FALSE),
                                                       labels).words)
                   IN  st2.pc = back /\ st2.r[8] = S

\* C12: a `call x` expansion at address A, executed under the table with
\* Rx = T and SP = S, ends with PC = T, SP = S - 2 and mem16[S - 2] = A + 34,
\* and a following `ret y` expansion sets PC to A + 34 and SP back to S; the
\* return address stored in a CALL or CALLF token is the address right after
\* that token's expansion.
C12_CallRetRoundTrip ==
    phase = "written" =>
        \A i \in Consumed :
            /\ tokens[i].op = "call" =>
                   /\ tokens[i].y = trace2[i].cursor + 34
                   /\ CallRoundTrip(i, trace2[i].cursor + 34)
            /\ tokens[i].op = "callf" => tokens[i].z = trace2[i].cursor + 14

\* The indices of the Label tokens of the stream.
LabelTokens == {i \in 1..Len(tokens) : tokens[i].op = "label"}

DuplicateIds == \E i, n \in LabelTokens : i < n /\ tokens[i].k = tokens[n].k

\* C13: if two Label tokens of the stream carry the same id, assembly ends
\* with the fatal 'Duplicate label' before any byte is emitted; otherwise the
\* label table maps each id to exactly one address, the one of its token.
C13_DuplicateLabelFatal ==
    Pass1Done =>
        IF DuplicateIds
          THEN phase = "fatal" /\ ti = 1 /\ trace2 = <<>> /\ exec.bytes = <<>>
          ELSE /\ DOMAIN labels = {tokens[i].k : i \in LabelTokens}
               /\ \A i \in LabelTokens : labels[tokens[i].k] = tokens[i].x
               /\ (phase = "fatal" => ti <= Len(tokens) /\ TokenWords(tokens[ti], labels).fatal)

\* `foo:` / `nop` / `foo:` has been refused.
C13_Witness ==
    /\ Pass1Done /\ phase = "fatal"
    /\ Len(src) = 3
    /\ src[1].kind = "label" /\ src[1].text = Names.foo
    /\ src[2].head = "nop"
    /\ src[3].kind = "label" /\ src[3].text = Names.foo

\* The source lines that define the label called name.
Defs(name) == {n \in 1..Len(src) : src[n].kind = "label" /\ src[n].text = name}

\* Source line n refers to a label: the name it refers to.
IsShortRef(n) == src[n].kind = "directive" /\ src[n].head = "short"

IsLdlRef(n) == src[n].kind = "instruction" /\ src[n].head = "ldl"

RefName(n) == IF IsShortRef(n) THEN src[n].args[1] ELSE src[n].args[2]

\* C14: the label table is complete before the first byte is written, so a
\* reference to a label L in `.short L` or `ldl x, L` emits the address of L
\* whether the reference stands before or after the line `L:`.
C14_ReferenceEmitsLabelAddress ==
    phase = "written" =>
        \A n \in 1..Len(src) :
            /\ IsShortRef(n) =>
                   \A d \in Defs(RefName(n)) :
                       trace2[n + Prepended].words = <<LineToken(d).x>>
            /\ IsLdlRef(n) =>
                   \A d \in Defs(RefName(n)) :
                       trace2[n + Prepended].words =
                           LdlWords(reg_name_to_num(src[n].args[1]), LineToken(d).x)

\* The 64-bit id of a name of two to eight characters, truncated to 16 bits:
\* its first two bytes, the first the low one.
Trunc16(name) == Ord(name[1]) + 256 * Ord(name[2])

HexDigits == {"0", "1", "2", "3", "4", "5", "6", "7", "8", "9",
              "a", "b", "c", "d", "e", "f", "A", "B", "C", "D", "E", "F"}

\* The name is not read as a number.
NotNumber(name) == \E i \in 1..Len(name) : name[i] \notin HexDigits

\* Source line n refers to a name that no line defines.
Undefined(n) ==
    /\ IsShortRef(n) \/ IsLdlRef(n)
    /\ Defs(RefName(n)) = {}
    /\ NotNumber(RefName(n))

\* Assembly stopped at pass 2's token i.
DiedAt(i) == Pass1Done /\ phase = "fatal" /\ ~DuplicateIds /\ ti = i

IsPrefix(a, b) == Len(a) <= Len(b) /\ a = SubSeq(b, 1, Len(a))

\* C16: assembling `_start:` / `ldi r0, 0xDE` / `shl r0, 8` / `ldi r0, 0xAD` /
\* `jmp r0` succeeds and writes exactly DE 40 08 70 AD 40 00 60; an `ldi x, nn`
\* line accepts nn in decimal or in `0x`-prefixed hex.
C16_MinimalProgramImage ==
    \A p \in {MinimalHex, MinimalDec} :
        IsPrefix(src, p) =>
            /\ phase # "fatal"
            /\ (src = p /\ phase = "written") =>
                   exec.bytes = <<222, 64, 8, 112, 173, 64, 0, 96>>

\* The source is `.addr A` / `L:` / one native instruction / `.short L`, and
\* its image has been written.
IsRoundTrip ==
    /\ phase = "written"
    /\ Len(src) = 4
    /\ src[1].kind = "directive" /\ src[1].head = "addr"
    /\ src[2].kind = "label"
    /\ src[3].kind = "instruction" /\ src[3].head \in Natives
    /\ src[4].kind = "directive" /\ src[4].head = "short"
    /\ src[4].args = <<src[2].text>>

\* The offsets of the image that pass 2's token i wrote.
WrittenBy(i) ==
    { (trace2[i].cursor + d) % U16 : d \in 0..(2 * Len(trace2[i].words) - 1) }

Unwritten == { a \in 0..(Len(exec.bytes) - 1) : \A i \in Consumed : a \notin WrittenBy(i) }

\* C17: for a source `.addr A` (A even) / `L:` / one native instruction /
\* `.short L`, the image is zero below A, has the instruction word at A..A+1
\* and A, low byte first, at A+2..A+3; every byte no token wrote is 0x00.
C17_AddrLabelRoundTrip ==
    /\ (IsRoundTrip /\ ~opts.trampoline) =>
           LET A == LineToken(1).x
           IN  /\ Len(exec.bytes) = A + 4
               /\ \A a \in 0..(A - 1) : exec.bytes[a + 1] = 0
               /\ SubSeq(exec.bytes, A + 1, A + 2) = LeBytes(trace2[3].words)
               /\ SubSeq(exec.bytes, A + 3, A + 4) = <<A % 256, A \div 256>>
    /\ phase = "written" => \A a \in Unwritten : exec.bytes[a + 1] = 0

\* C18: PC is even whenever an instruction is fetched, for every initial_pc
\* and every jump target; a jump to an odd target raises the unaligned flag
\* instead of leaving PC odd.
C18_PcEvenAtFetch == vloc = "step" => regs.pc % 2 = 0

\* The machine was built with the built-in firmware and initial_pc = 0.
DefaultBoot == firmware = DefaultFirmware /\ config.initial_pc = 0

\* R0 and R1 hold 0xDEAD and PC is within the last instruction of the firmware.
DeadTail ==
    /\ regs.r[1] = 57005
    /\ regs.r[2] = 57005
    /\ regs.pc \in (Len(DefaultFirmware) - 2)..(Len(DefaultFirmware) - 1)

C20_ResetCopiesFirmware ==
    [][reset =>
          /\ vloc' = "run"
          /\ regs'.pc = config.initial_pc
          /\ \A i \in 0..(Len(firmware) - 1) :
                 mem'[config.initial_pc + i + 1] = firmware[i + 1]]_vars

\* The data access of the instruction about to be executed, for the loads,
\* stores, pushes and pops whose encoding step() accepts: whether it is a word
\* access, and its address.
NoAccess == [some |-> FALSE, word |-> FALSE, addr |-> 0]

MemAccess(opcode, rg) ==
    LET name == InstructionName(OpClass(opcode))
        sub == BitAnd(opcode, 15)
        stackForm == \/ BitAnd(opcode, 255) = 0 /\ OpX(opcode) \in 1..10
                     \/ BitAnd(opcode, 4095) = 1
    IN  IF name \in {"LDA", "STA"} /\ OpX(opcode) < 8 /\ OpY(opcode) < 8 /\ sub \in {0, 1}
          THEN [some |-> TRUE, word |-> sub = 1,
                addr |-> IF name = "LDA" THEN rg.r[OpY(opcode) + 1]
                                         ELSE rg.r[OpX(opcode) + 1]]
        ELSE IF name = "POP" /\ stackForm
          THEN [some |-> TRUE, word |-> TRUE, addr |-> rg.sp]
        ELSE IF name = "PUSH" /\ stackForm /\ rg.sp >= 2
          THEN [some |-> TRUE, word |-> TRUE, addr |-> rg.sp - 2]
        ELSE NoAccess

\* C21: step() never touches memory at an index >= mem_size: a word access at
\* a >= mem_size - 1 and a byte access at a >= mem_size raise SEG and leave
\* memory alone, and every access below those bounds is performed.
C21_AccessesBoundedBySeg ==
    [][(RunStep /\ ~fetch(mem, regs, build).panic) =>
          LET acc == MemAccess(fetch(mem, regs, build).opcode, regs)
              bound == IF acc.word THEN Len(mem) - 1 ELSE Len(mem)
          IN  acc.some =>
                  IF acc.addr >= bound
                    THEN /\ vghost'.last.kind = "err"
                         /\ vghost'.last.exc = "SEG"
                         /\ mem' = mem
                    ELSE vghost'.last.kind = "ok"]_vars

\* The 16-bit result the arithmetic instructions are to give: the sum and the
\* shifted value, truncated to 16 bits.
Mod16Result(opcode, rg) ==
    LET name == InstructionName(OpClass(opcode))
        rx == rg.r[OpX(opcode) + 1]
        n == BitAnd(opcode, 255)
    IN  IF name = "ADD" THEN (rx + rg.r[OpY(opcode) + 1]) % U16
        ELSE IF name = "SHL" THEN (IF n >= 16 THEN 0 ELSE (rx * Pow2(n)) % U16)
        ELSE (IF n >= 16 THEN 0 ELSE rx \div Pow2(n))

\* step() accepts the opcode as an add or a shift.
IsArith(opcode) ==
    LET name == InstructionName(OpClass(opcode))
    IN  \/ name = "ADD" /\ BitAnd(opcode, 15) = 0 /\ OpX(opcode) < 8 /\ OpY(opcode) < 8
        \/ name \in {"SHL", "SHR"} /\ OpX(opcode) < 8

\* C22: register arithmetic in step() is total and modulo 2^16: add gives
\* (Rx + Ry) mod 2^16, a shift by any encodable count gives the truncated
\* result, the PC increment wraps, and the host is never aborted.
C22_ArithmeticWraps ==
    [][(RunStep /\ ~fetch(mem, regs, build).panic /\ IsArith(fetch(mem, regs, build).opcode)) =>
          /\ vloc' # "panic"
          /\ regs'.r[OpX(fetch(mem, regs, build).opcode) + 1] =
                 Mod16Result(fetch(mem, regs, build).opcode, regs)
          /\ regs'.pc = (regs.pc + 2) % U16]_vars

\* The per-instruction ceilings of the register operands as written, first
\* and second: and/not/add/sub/shr/shl/ldi and the data register of
\* ldb/ldw/stb/stw up to R7; inc/dec, the address register of ldb/ldw/stb/stw
\* and the target of jmp/jnz up to SP; the tested register of jnz up to R7;
\* both operands of mov up to C1.
Ceiling1(head) ==
    IF head = "mov" THEN 10
    ELSE IF head \in {"inc", "dec", "stb", "stw", "jmp", "jnz"} THEN 8
    ELSE 7

Ceiling2(head) ==
    IF head = "mov" THEN 10
    ELSE IF head \in {"ldb", "ldw"} THEN 8
    ELSE 7

\* Line n is a native instruction with register operands that pass 1 accepted.
HasRegs(n) ==
    /\ n <= Len(trace1)
    /\ src[n].kind = "instruction"
    /\ src[n].head \in RR \cup R1 \cup RI

AboveCeiling(n) ==
    \/ reg_name_to_num(src[n].args[1]) > Ceiling1(src[n].head)
    \/ src[n].head \in RR /\ reg_name_to_num(src[n].args[2]) > Ceiling2(src[n].head)

\* C23: sasm rejects with a fatal error every instruction with a register
\* operand above its per-instruction ceiling and accepts every instruction
\* whose register operands are at or below it.
C23_RegisterCeilings ==
    Pass1Done =>
        \A n \in 1..Len(src) :
            HasRegs(n) =>
                /\ n + Prepended \in Consumed => ~AboveCeiling(n)
                /\ DiedAt(n + Prepended) => AboveCeiling(n)
                /\ (phase = "emit" /\ ti = n + Prepended) =>
                       (TokenWords(tokens[ti], labels).fatal <=> AboveCeiling(n))

\* `jnz sp, r8` alone: the target SP is within its ceiling, the tested
\* register 8 is above R7, and assembly has stopped at this line.
C23_Witness ==
    /\ src = <<Ins2("jnz", <<"s", "p">>, Reg("r", "8"))>>
    /\ DiedAt(1 + Prepended)
    /\ AboveCeiling(1)
    /\ reg_name_to_num(src[1].args[1]) <= Ceiling1("jnz")

\* The text is a decimal literal, or a `0x`-prefixed hexadecimal literal.
IsDecimal(t) == t # <<>> /\ \A i \in 1..Len(t) : IndexIn(Digits, t[i]) > 0

IsHex0x(t) ==
    /\ Len(t) >= 3
    /\ t[1] = "0" /\ t[2] = "x"
    /\ \A i \in 3..Len(t) : t[i] \in HexDigits

\* The value a literal denotes.
LiteralValue(t) ==
    IF IsDecimal(t) THEN FromStrRadix(t, 10, U16 - 1)
    ELSE FromStrRadix(SubSeq(t, 3, Len(t)), 16, U16 - 1)

\* C24: `.short <value>` emits v when <value> is the decimal literal of v or
\* the `0x`-prefixed hexadecimal literal of v, and is a label reference
\* exactly when <value> is neither (a label named with hex digits only is
\* still a label reference).
C24_ShortLiteralOrLabel ==
    Pass1Done =>
        \A n \in 1..Len(src) :
            IsShortRef(n) =>
                LET t == src[n].args[1]
                IN  /\ LineToken(n).l <=> ~(IsDecimal(t) \/ IsHex0x(t))
                    /\ (n + Prepended \in Consumed /\ (IsDecimal(t) \/ IsHex0x(t))) =>
                           trace2[n + Prepended].words = <<LiteralValue(t)>>
                    /\ (n + Prepended \in Consumed /\ ~(IsDecimal(t) \/ IsHex0x(t))) =>
                           \A d \in Defs(t) :
                               trace2[n + Prepended].words = <<LineToken(d).x>>

\* C25: `ldl x, <operand>` loads v when the operand is the decimal literal
\* of v (`ldl r0, 10` loads 10) or the `0x`-prefixed hexadecimal literal of v,
\* and loads the address of label L when the operand is the name L.
C25_LdlLiteralOrLabel ==
    Pass1Done =>
        \A n \in 1..Len(src) :
            (IsLdlRef(n) /\ n + Prepended \in Consumed) =>
                LET t == src[n].args[2]
                    x == reg_name_to_num(src[n].args[1])
                IN  IF IsDecimal(t) \/ IsHex0x(t)
                      THEN trace2[n + Prepended].words = LdlWords(x, LiteralValue(t))
                      ELSE \A d \in Defs(t) :
                               trace2[n + Prepended].words = LdlWords(x, LineToken(d).x)

\* The register names and their numbers: r0..r7, sp, c0, c1.
ValidRegNames ==
    {Reg("r", Digits[i]) : i \in 1..8} \cup {<<"s", "p">>, Reg("c", "0"), Reg("c", "1")}

NamedNumber(name) ==
    IF name = <<"s", "p">> THEN 8
    ELSE IF name[1] = "c" THEN 9 + (IndexIn(Digits, name[2]) - 1)
    ELSE IndexIn(Digits, name[2]) - 1

\* The register operands of line n as written.
RegOperands(n) ==
    IF src[n].head \in RR THEN {src[n].args[1], src[n].args[2]} ELSE {src[n].args[1]}

\* C26: reg_name_to_num accepts exactly r0..r7, sp, c0 and c1, as 0..7, 8, 9
\* and 10; a line with any other register name (r8, r10, c2, a name with
\* trailing characters) ends assembly in pass 1 and yields no token.
C26_RegisterNamesExact ==
    \A n \in 1..Len(src) :
        (src[n].kind = "instruction" /\ src[n].head \in RR \cup R1 \cup RI) =>
            /\ n <= Len(trace1) => RegOperands(n) \subseteq ValidRegNames
            /\ \A name \in RegOperands(n) \cap ValidRegNames :
                   reg_name_to_num(name) = NamedNumber(name)

\* The label names of the source: those defined and those referred to.
DefinedNames == {src[n].text : n \in {m \in 1..Len(src) : src[m].kind = "label"}}

ReferredNames ==
    {RefName(n) : n \in {m \in 1..Len(src) :
                            (IsShortRef(m) \/ IsLdlRef(m)) /\ LineToken(m).l}}

\* C27: in every accepted program each label id stands for one label name:
\* two distinct names never have the same id, and a reference to the name N
\* resolves only to the definition of N.
C27_IdNamesOneLabel ==
    phase = "written" =>
        /\ \A a \in DefinedNames \cup ReferredNames :
               \A b \in DefinedNames \cup ReferredNames :
                   a # b => calculate_label_id(a) # calculate_label_id(b)
        /\ \A n \in 1..Len(src) :
               (IsShortRef(n) /\ LineToken(n).l) =>
                   \E d \in Defs(RefName(n)) :
                       trace2[n + Prepended].words = <<LineToken(d).x>>

\* Byte i of the XOR of the 8-byte groups of s: the XOR of the bytes of s at
\* the positions i, i + 8, i + 16, ... (a missing byte counts as zero).
RECURSIVE XorColumn(_, _, _)
XorColumn(s, i, g) ==
    IF i + 8 * g > Len(s) THEN 0
    ELSE BitXor(Ord(s[i + 8 * g]), XorColumn(s, i, g + 1))

GroupedXor(s) == [i \in 1..8 |-> XorColumn(s, i, 0)]

\* C28: calculate_label_id(s) is the XOR of the consecutive 8-byte groups of
\* s, each a little-endian 64-bit word, the last one zero-padded; the empty
\* string gives 0; the id depends only on s.
C28_LabelIdIsGroupedXor ==
    /\ \A n \in 1..Len(trace1) :
           /\ src[n].kind = "label" => LineToken(n).k = GroupedXor(src[n].text)
           /\ (IsShortRef(n) /\ LineToken(n).l) =>
                  LineToken(n).k = GroupedXor(TrimStart0x(src[n].args[1]))
    /\ Prepended = 2 => tokens[1].k = GroupedXor(opts.entry)

\* The seventeen-character name has been given the id whose bytes are the
\* XOR of its three groups.
C28_Witness ==
    \E n \in 1..Len(trace1) :
        /\ src[n] = Label(Names.long)
        /\ LineToken(n).k = <<105, 6, 7, 4, 5, 10, 11, 8>>

\* Decoding by the instruction table: the mnemonic from the class and the
\* sub-opcode, the operands from the middle nibbles (the low byte for ldi).
DisassembleOp(w) ==
    LET class == w \div 4096
        sub == w % 4
    IN  CASE class = 0 -> "nop"
          [] class = 1 -> (IF sub = 0 THEN "and" ELSE "not")
          [] class = 2 -> <<"add", "sub", "inc", "dec">>[sub + 1]
          [] class = 3 -> (IF sub = 0 THEN "ldb" ELSE IF sub = 1 THEN "ldw" ELSE "mov")
          [] class = 4 -> "ldi"
          [] class = 5 -> (IF sub = 0 THEN "stb" ELSE "stw")
          [] class = 6 -> (IF sub = 0 THEN "jmp" ELSE "jnz")
          [] class = 7 -> (IF sub = 0 THEN "shr" ELSE "shl")
          [] OTHER -> (IF sub = 0 THEN "test" ELSE IF sub = 1 THEN "setf" ELSE "clrf")

Disassemble(w) ==
    LET op == DisassembleOp(w)
        X == (w \div 256) % 16
        Y == (w \div 16) % 16
    IN  [op |-> op,
         x |-> IF op = "nop" THEN 0 ELSE X,
         y |-> IF op = "ldi" THEN w % 256
               ELSE IF op \in RR \cup {"shr", "shl"} THEN Y
               ELSE 0]

\* C29: the encoding of the native instructions sasm accepts is invertible:
\* decoding an emitted word by the instruction table gives back the mnemonic
\* and the operand values as written, so two different accepted instructions
\* never share a word.
C29_EncodingInvertible ==
    \A i \in Consumed :
        tokens[i].op \in Natives =>
            LET d == Disassemble(trace2[i].words[1])
            IN  /\ d.op = tokens[i].op
                /\ d.x = tokens[i].x
                /\ d.y = tokens[i].y

\* C29 as amended: decoding an emitted word by the instruction table gives
\* back the mnemonic and the register and ldi operands as written, and the
\* shift count and the flag index modulo 16: counts and indices of 16..255
\* are accepted and share the word of their value modulo 16.
C29_InvertibleModulo16 ==
    \A i \in Consumed :
        tokens[i].op \in Natives =>
            LET d == Disassemble(trace2[i].words[1])
            IN  /\ d.op = tokens[i].op
                /\ d.x = IF tokens[i].op \in I1 THEN tokens[i].x % 16 ELSE tokens[i].x
                /\ d.y = IF tokens[i].op \in {"shr", "shl"} THEN tokens[i].y % 16
                                                             ELSE tokens[i].y

\* `shl r1, 16` has been emitted as 0x7101, the word of `shl r1, 0`.
C29_Witness ==
    \E i \in Consumed :
        /\ tokens[i].op = "shl" /\ tokens[i].x = 1 /\ tokens[i].y = 16
        /\ trace2[i].words = <<28929>>

\* C30: run() ends only by observing should_run = false at the head of its
\* loop; no instruction, fault, register value or configuration value stops
\* run() or aborts the host, and a step that has started runs to completion.
C30_RunEndsOnlyOnFlag ==
    [][/\ vloc \in {"run", "head", "iter", "step"} => vloc' # "panic"
       /\ (vloc # "done" /\ vloc' = "done") => (vloc = "head" /\ ~should_run)]_vars

(***************************************************************************)
(* C31: in each iteration of run(), step() is invoked once if the          *)
(* accumulated delta is >= period_ns and not at all otherwise; a step that *)
(* returns subtracts exactly one period, delta never goes negative, and a  *)
(* step is always followed by a new iteration (a new load of the flag and  *)
(* a new reading of the clock), never by a second step.  Registers and     *)
(* memory change in run() only by a step.                                  *)
(***************************************************************************)
InRun == vloc \in {"head", "iter", "step"}

C31_OneStepPerIteration ==
    [][/\ (vloc = "iter" /\ vloc' # "iter") =>
             /\ delta' >= delta
             /\ vloc' = (IF delta' >= delta_ceil THEN "step" ELSE "head")
       /\ (vloc = "step" /\ vloc' = "head") =>
             /\ delta' = delta - delta_ceil
             /\ delta' >= 0
       /\ vloc = "step" => vloc' \in {"step", "head", "panic"}
       /\ (vloc = "step" /\ vloc' = "step") => (regs' = regs /\ mem' = mem /\ delta' = delta)
       /\ (InRun /\ vloc # "step") => (regs' = regs /\ mem' = mem)
       /\ (InRun /\ vloc # "iter" /\ vloc # "step") => delta' = delta]_vars

\* A step has returned and a backlog of at least one period is left.
C31_Witness ==
    /\ vloc = "head"
    /\ vghost.last.kind \in {"ok", "err"}
    /\ config.cycles_per_second # 0
    /\ delta_ceil > 0
    /\ delta >= delta_ceil

(***************************************************************************)
(* C32: the words emitted for push, pop, ldl, ret and callf are the words  *)
(* of the listed native sequences, each word being what the native token   *)
(* would encode to (so the pseudo-instruction is fatal exactly when one of *)
(* its natives would be, or when callf is given x == y).                   *)
(***************************************************************************)
Native(op, x, y) == Tok(op, x, y, 0, Zero64, FALSE)

\* The listed native sequence of a pseudo-instruction token; a is the value
\* an ldl loads.
NativeSequence(t, a) ==
    LET push(r) == <<Native("dec", SP, 0), Native("dec", SP, 0), Native("stw", SP, r)>>
        pop(r) == <<Native("ldw", r, SP), Native("inc", SP, 0), Native("inc", SP, 0)>>
        ldl(r, v) == <<Native("ldi", r, v \div 256), Native("shl", r, 8),
                       Native("ldi", r, v % 256)>>
    IN  CASE t.op = "push" -> push(t.x)
          [] t.op = "pop" -> pop(t.x)
          [] t.op = "ldl" -> ldl(t.x, a)
          [] t.op = "ret" -> pop(t.x) \o <<Native("jmp", t.x, 0)>>
          [] t.op = "callf" -> ldl(t.y, t.z) \o push(t.y) \o <<Native("jmp", t.x, 0)>>

\* The words of a sequence of native tokens, fatal when one of them is.
NativeWords(ts, lab) ==
    LET ws == [n \in 1..Len(ts) |-> TokenWords(ts[n], lab)]
    IN  IF \E n \in 1..Len(ts) : ws[n].fatal THEN NoWords
        ELSE Words([n \in 1..Len(ts) |-> ws[n].words[1]])

ListedWords(t, lab) ==
    IF t.op = "callf" /\ t.x = t.y THEN NoWords
    ELSE NativeWords(NativeSequence(t, IF t.k \in DOMAIN lab THEN lab[t.k]
                                                            ELSE AsU16(t.k)), lab)

IsListedPseudo(i) == tokens[i].op \in {"push", "pop", "ldl", "ret", "callf"}

C32_PseudoWordsAreNativeWords ==
    Pass1Done =>
      \A i \in 1..Len(tokens) :
          IsListedPseudo(i) =>
            /\ i \in Consumed =>
                  /\ ~ ListedWords(tokens[i], labels).fatal
                  /\ trace2[i].words = ListedWords(tokens[i], labels).words
            /\ DiedAt(i) => ListedWords(tokens[i], labels).fatal

(***************************************************************************)
(* C33: run under the instruction table, the words of `push x` followed by *)
(* the words of `pop y` leave Ry equal to the value Rx had, SP equal to    *)
(* its value before the push and every register other than Ry unchanged,   *)
(* for the register values and stack pointers below; the words of          *)
(* `ldl x, a`, x a register, leave Rx equal to a whatever Rx held.         *)
(***************************************************************************)
RegValues == {0, 1, 255, 256, 43981, 65535}

StackPointers == {2, 3, 16, 65535}

\* A register file with a different value in every register.
TableState(x, V, S) ==
    [r |-> [n \in 0..10 |-> IF n = 8 THEN S ELSE IF n = x THEN V ELSE 1000 + n],
     pc |-> 0,
     m |-> [a \in (S - 2)..(S - 1) |-> 0]]

PushPopRestores(i, n) ==
    \A V \in RegValues, S \in StackPointers :
        LET st0 == TableState(tokens[i].x, V, S)
            st2 == TableRun(st0, trace2[i].words \o trace2[n].words)
        IN  /\ st2.r[tokens[n].x] = V
            /\ st2.r[8] = S
            /\ \A q \in 0..10 : q # tokens[n].x => st2.r[q] = st0.r[q]

\* The value the LDL arm of gen_executable resolves for its token.
LdlValue(i) ==
    IF tokens[i].k \in DOMAIN labels THEN labels[tokens[i].k] ELSE AsU16(tokens[i].k)

LdlLoads(i) ==
    \A V \in RegValues :
        TableRun(TableState(tokens[i].x, V, 16), trace2[i].words).r[tokens[i].x]
          = LdlValue(i)

C33_ExpansionsExecute ==
    \A i \in Consumed :
        /\ tokens[i].op = "push" =>
              \A n \in Consumed : tokens[n].op = "pop" => PushPopRestores(i, n)
        /\ (tokens[i].op = "ldl" /\ tokens[i].x <= C1) => LdlLoads(i)

\* `push r0` and `pop r7` have been emitted, and so has `ldl sp, 0x12CD`.
C33_Witness ==
    /\ phase = "written"
    /\ \/ /\ Len(tokens) = 2
          /\ tokens[1].op = "push" /\ tokens[1].x = 0
          /\ tokens[2].op = "pop" /\ tokens[2].x = R7
       \/ /\ Len(tokens) = 1
          /\ tokens[1].op = "ldl" /\ tokens[1].x = SP /\ LdlValue(1) = 4813

(***************************************************************************)
(* C34: for `ldl x, v` with a numeric literal v, the emitted words are     *)
(* those of the number the tokenizer read, whatever labels the program     *)
(* defines: a label whose id equals that number changes nothing.           *)
(***************************************************************************)
C34_NumericLdlIgnoresLabels ==
    Pass1Done =>
        \A n \in 1..Len(src) :
            (/\ IsLdlRef(n)
             /\ n + Prepended \in Consumed
             /\ IsDecimal(src[n].args[2]) \/ IsHex0x(src[n].args[2])) =>
                trace2[n + Prepended].words
                  = LdlWords(tokens[n + Prepended].x, AsU16(tokens[n + Prepended].k))

(***************************************************************************)
(* C35: with the trampoline option, when the entry label E is defined and  *)
(* is not the first item of the source, the image begins with the 8 bytes  *)
(* of `ldl r0, E; jmp r0` (E the resolved address of the entry label),     *)
(* every source item is placed 8 bytes later than without the option, and  *)
(* running the image from address 0 under the instruction table sets PC to *)
(* E.  The rewind by 8 happens at most once per assembly, only at the      *)
(* entry label met at cursor 8, and after it no trampoline is prepended.   *)
(***************************************************************************)
\* The pass-1 cursor before line i of the source when the option is off.
RECURSIVE PlainBefore(_)
PlainBefore(i) ==
    IF i = 1 THEN 0
    ELSE gen_token([entry |-> opts.entry, trampoline |-> FALSE,
                    address |-> PlainBefore(i - 1)], src[i - 1]).address

EntryDefined == \E n \in 1..Len(src) : src[n].kind = "label" /\ src[n].text = opts.entry

EntryNotFirst ==
    /\ phase = "written"
    /\ opts.trampoline
    /\ EntryDefined
    /\ ~ (src[1].kind = "label" /\ src[1].text = opts.entry)

\* The lines at which pass 1 took 8 off its cursor.
Rewinds == {i \in Lines1 : src[i].kind = "label" /\ trace1[i].after = trace1[i].before - 8}

ImageWord(n) == exec.bytes[2 * n - 1] + 256 * exec.bytes[2 * n]

C35_TrampolineJumpsToEntry ==
    /\ EntryNotFirst =>
          LET E == labels[calculate_label_id(opts.entry)]
          IN  /\ Len(exec.bytes) >= 8
              /\ SubSeq(exec.bytes, 1, 8) = LeBytes(LdlWords(0, E) \o <<24576>>)
              /\ \A n \in 1..Len(src) : trace2[n + Prepended].cursor = PlainBefore(n) + 8
              /\ TableRun(TableState(0, 0, 16), [n \in 1..4 |-> ImageWord(n)]).pc = E
    /\ Cardinality(Rewinds) <= 1
    /\ \A i \in Rewinds :
          opts.trampoline /\ src[i].text = opts.entry /\ trace1[i].before = 8
    /\ (Rewinds # {} /\ phase # "tokenize") => Prepended = 0

(***************************************************************************)
(* C36: should_run starts true; it is only ever changed to false, so once  *)
(* false it stays false in every interleaving; the step that changes it    *)
(* (the signal handler) changes nothing of the machine, and the steps that *)
(* change registers, memory, PC or the position of run() (the interpreter  *)
(* thread) leave it as it is.                                              *)
(***************************************************************************)
C36_FlagOnlyCleared ==
    /\ should_run = TRUE
    /\ [][/\ ~ should_run => ~ should_run'
          /\ should_run' # should_run =>
                (mem' = mem /\ regs' = regs /\ vloc' = vloc /\ delta' = delta
                 /\ config' = config /\ firmware' = firmware)
          /\ (mem' # mem \/ regs' # regs \/ vloc' # vloc \/ delta' # delta) =>
                should_run' = should_run]_vars

\* The handler ran while run() was looping, and steps were taken after it.
C36_Witness ==
    /\ ~ should_run
    /\ vghost.setInRun
    /\ vloc = "done"
    /\ vghost.last.kind = "ok"

(***************************************************************************)
(* C37: after any sequence of set_address and push_short calls, size() is  *)
(* one plus the highest address ever written (0 if nothing was written).   *)
(* Step by step: size() never decreases, set_address leaves the bytes as   *)
(* they are (so a trailing `.addr` adds no padding), and a push_short at   *)
(* cursor c that returns leaves size() at the larger of the old size and   *)
(* one plus the higher of the two addresses it wrote.                      *)
(***************************************************************************)
Larger(a, b) == IF a >= b THEN a ELSE b

C37_SizeIsHighestWrittenPlusOne ==
    [][/\ Size(exec') >= Size(exec)
       /\ last'.op = "set_address" => exec'.bytes = exec.bytes
       /\ (last'.op = "push_short" /\ phase' = "api") =>
             Size(exec') = Larger(Size(exec),
                                  1 + Larger(exec.address, (exec.address + 1) % U16))]_vars

(***************************************************************************)
(* C38: assembly is all-or-nothing.  The output is written only after      *)
(* tokenize() and gen_executable() have both run to their end, and a       *)
(* source with a fatal condition (here: a duplicate label, or a size       *)
(* overflow, the pass-1 cursor going beyond the 64 KiB the 16-bit cursor   *)
(* can address) ends with the fatal exit and never with an output file or  *)
(* an abort of another kind.                                               *)
(***************************************************************************)
SizeOverflow == \E i \in Lines1 : trace1[i].after > U16

C38_AllOrNothing ==
    /\ phase = "written" =>
          /\ Pass1Done
          /\ ti > Len(tokens)
          /\ Len(trace2) = Len(tokens)
    /\ (phase \in {"written", "panic", "fatal"} /\ (SizeOverflow \/ DuplicateIds)) =>
          phase = "fatal"

(***************************************************************************)
(* C39: in the VM, `mov x,y` with both register fields in 0x00..0x0A       *)
(* copies Ry into Rx, leaves every other register, FG and memory           *)
(* unchanged, raises no exception and does not abort the host, for every   *)
(* pair of operands, R0 included; a field above 0x0A raises IOP.           *)
(* Registers are numbered as num_to_ptr numbers them, with R0 for 0.       *)
(***************************************************************************)
IsVmMov(opcode) == InstructionName(OpClass(opcode)) = "MOV" /\ BitAnd(opcode, 15) = 0

VmReg(rg, n) == IF n = 0 THEN rg.r[1] ELSE Deref(rg, num_to_ptr(n))

C39_MovCopiesAnyRegister ==
    [][(vloc = "step" /\ vloc' # "step" /\ IsVmMov(fetch(mem, regs, build).opcode)) =>
          LET X == OpX(fetch(mem, regs, build).opcode)
              Y == OpY(fetch(mem, regs, build).opcode)
          IN  IF X <= 10 /\ Y <= 10
                THEN /\ vloc' # "panic"
                     /\ vghost'.last.kind = "ok"
                     /\ VmReg(regs', X) = VmReg(regs, Y)
                     /\ \A n \in 0..10 : n # X => VmReg(regs', n) = VmReg(regs, n)
                     /\ regs'.fg = regs.fg
                     /\ mem' = mem
                ELSE vghost'.last.kind = "err" /\ vghost'.last.exc = "IOP"]_vars

====
